---- MODULE Spec2Model ----
(***************************************************************************)
(* Model of the XMS metadata parser (XMSDoc): version dispatch, the strict *)
(* and the legacy tokenizer, fallback recovery, limit enforcement, value   *)
(* coercion, nested assignment, lookup and the serializer.                 *)
(*                                                                         *)
(* A JavaScript string is a sequence of one-character strings; indices are *)
(* 1-based here, so an index i of the source is i + 1 in the model and the *)
(* "not found" result -1 of the source is 0.                               *)
(***************************************************************************)
EXTENDS Integers, Sequences, FiniteSets, TLC

VARIABLES input, opts, doc, pc, out, doc2, notified

vars == <<input, opts, doc, pc, out, doc2, notified>>

-----------------------------------------------------------------------------
(* Characters and string primitives                                        *)

SEMI == ";"
EQ == "="
QUOTE == "\""
BACKSLASH == "\\"
DOT == "."
SPACE == " "
TAB == "\t"

Digits == {"0", "1", "2", "3", "4", "5", "6", "7", "8", "9"}

LowerLetters ==
    {"a", "b", "c", "d", "e", "f", "g", "h", "i", "j", "k", "l", "m",
     "n", "o", "p", "q", "r", "s", "t", "u", "v", "w", "x", "y", "z"}

UpperSeq ==
    <<"A", "B", "C", "D", "E", "F", "G", "H", "I", "J", "K", "L", "M",
      "N", "O", "P", "Q", "R", "S", "T", "U", "V", "W", "X", "Y", "Z">>

LowerSeq ==
    <<"a", "b", "c", "d", "e", "f", "g", "h", "i", "j", "k", "l", "m",
      "n", "o", "p", "q", "r", "s", "t", "u", "v", "w", "x", "y", "z">>

\* the characters String.prototype.trim strips and the class \s matches
Whitespace == {SPACE, TAB}

\* KEY_PATTERN = /^[a-z0-9_.]+$/
KeyChars == LowerLetters \cup Digits \cup {"_", DOT}

SetMin(S) == CHOOSE x \in S : \A y \in S : x <= y

SetMax(S) == 0 - SetMin({0 - x : x \in S})

LowerChar(c) ==
    IF \E i \in 1..26 : UpperSeq[i] = c
    THEN LowerSeq[CHOOSE i \in 1..26 : UpperSeq[i] = c]
    ELSE c

toLowerCase(s) == [i \in 1..Len(s) |-> LowerChar(s[i])]

trim(s) ==
    LET keep == {i \in 1..Len(s) : s[i] \notin Whitespace}
    IN  IF keep = {} THEN <<>> ELSE SubSeq(s, SetMin(keep), SetMax(keep))

\* s.slice(from) with a 1-based first index
SliceFrom(s, from) == SubSeq(s, from, Len(s))

\* s.indexOf(c): the first position of c, 0 when absent
indexOf(s, c) ==
    LET hits == {i \in 1..Len(s) : s[i] = c}
    IN  IF hits = {} THEN 0 ELSE SetMin(hits)

startsWith(s, c) == Len(s) >= 1 /\ s[1] = c

endsWith(s, c) == Len(s) >= 1 /\ s[Len(s)] = c

KEY_PATTERN(key) == Len(key) >= 1 /\ \A i \in 1..Len(key) : key[i] \in KeyChars

\* the first position at or after i that holds a character of C, Len(s) + 1
\* when there is none: the loops below step over a run of characters that
\* leave their state unchanged in one step
NextIn(s, i, C) == SetMin({j \in i..Len(s) : s[j] \in C} \cup {Len(s) + 1})

\* c repeated n times
Rep(c, n) == [i \in 1..n |-> c]

RECURSIVE Concat(_)
Concat(ss) == IF ss = <<>> THEN <<>> ELSE Head(ss) \o Concat(Tail(ss))

\* Array.prototype.join
RECURSIVE join(_, _)
join(ss, sep) ==
    IF ss = <<>> THEN <<>>
    ELSE IF Len(ss) = 1 THEN ss[1]
    ELSE ss[1] \o sep \o join(Tail(ss), sep)

\* String.prototype.split on one character: the segments between the
\* separators, empty ones included
RECURSIVE split(_, _)
split(s, c) ==
    LET j == NextIn(s, 1, {c})
    IN  IF j > Len(s) THEN <<s>>
        ELSE <<SubSeq(s, 1, j - 1)>> \o split(SliceFrom(s, j + 1), c)

-----------------------------------------------------------------------------
(* Values, entries, warnings                                               *)

\* entry values: string | null
NullRaw == [isNull |-> TRUE, s |-> <<>>]

StrRaw(s) == [isNull |-> FALSE, s |-> s]

RawEntry(name, value) == [name |-> name, value |-> value]

\* XMSValue, with undefined for an absent lookup result; a number m * 10^e
\* is kept normalised (m not divisible by 10, or m = 0 and e = 0)
Undefined == [t |-> "undefined", s |-> <<>>, b |-> FALSE, m |-> 0, e |-> 0]

NullVal == [t |-> "null", s |-> <<>>, b |-> FALSE, m |-> 0, e |-> 0]

StrVal(s) == [t |-> "string", s |-> s, b |-> FALSE, m |-> 0, e |-> 0]

BoolVal(b) == [t |-> "boolean", s |-> <<>>, b |-> b, m |-> 0, e |-> 0]

NumVal(m, e) == [t |-> "number", s |-> <<>>, b |-> FALSE, m |-> m, e |-> e]

ObjVal == [t |-> "object", s |-> <<>>, b |-> FALSE, m |-> 0, e |-> 0]

Warning(kind, key, seg, num) == [kind |-> kind, key |-> key, seg |-> seg, num |-> num]

ERR_UNTERMINATED == "Unterminated quote; fallback."

ERR_MALFORMED == "Malformed quoted value."

ERR_DANGLING == "Dangling backslash."

DEFAULT_OPTIONS ==
    [coerceBooleans |-> TRUE, coerceNumbers |-> FALSE, enforceLimits |-> TRUE,
     maxNestingDepth |-> 5, createFlatKeys |-> FALSE, createNestedKeys |-> TRUE,
     keepInvalidKeys |-> TRUE, reparseOnFallback |-> TRUE,
     overwriteScalarsForNested |-> FALSE, customBooleanLiterals |-> <<>>,
     numberPredicate |-> "none", onWarning |-> "none", defer |-> FALSE]

-----------------------------------------------------------------------------
(* Legacy tokenizer                                                        *)

\* the split loop of parseCommonMeta: runs between ";" that are non-empty
RECURSIVE CommonMetaToks(_, _, _)
CommonMetaToks(inp, i, toks) ==
    LET j == NextIn(inp, i, {SEMI})
        cur == SubSeq(inp, i, j - 1)
    IN  IF i > Len(inp) THEN toks
        ELSE CommonMetaToks(inp, j + 1, IF Len(cur) > 0 THEN Append(toks, cur) ELSE toks)

\* parseCommonMeta with the bare-token value of the strict tokenizer
CommonMetaEntry_bareNull(text) ==
    LET raw == trim(text)
        eq == indexOf(raw, EQ)
        right == trim(SliceFrom(raw, eq + 1))
    IN  IF eq = 0
        THEN RawEntry(toLowerCase(raw), NullRaw)
        ELSE RawEntry(toLowerCase(trim(SubSeq(raw, 1, eq - 1))),
                      IF right = <<>> THEN NullRaw ELSE StrRaw(right))

\* the body of the token loop of parseCommonMeta for one token
CommonMetaEntry(text) ==
    LET raw == trim(text)
        eq == indexOf(raw, EQ)
        right == trim(SliceFrom(raw, eq + 1))
    IN  IF eq = 0
        THEN RawEntry(toLowerCase(raw), StrRaw(<<>>))
        ELSE RawEntry(toLowerCase(trim(SubSeq(raw, 1, eq - 1))),
                      IF right = <<>> THEN NullRaw ELSE StrRaw(right))

RECURSIVE CommonMetaLoop(_, _, _, _)
CommonMetaLoop(toks, k, o, state) ==
    IF k > Len(toks) THEN [ok |-> TRUE, out |-> state.out, warnings |-> state.warnings,
                           errors |-> state.errors]
    ELSE IF trim(toks[k]) = <<>> THEN CommonMetaLoop(toks, k + 1, o, state)
    ELSE LET en == CommonMetaEntry(toks[k])
         IN  IF ~KEY_PATTERN(en.name)
             THEN IF ~o.keepInvalidKeys
                  THEN CommonMetaLoop(toks, k + 1, o, state)
                  ELSE CommonMetaLoop(toks, k + 1, o,
                         [state EXCEPT !.out = Append(@, en),
                                       !.warnings = Append(@,
                                           Warning("invalid_key_kept", en.name, <<>>, 0))])
             ELSE CommonMetaLoop(toks, k + 1, o, [state EXCEPT !.out = Append(@, en)])

\* parseCommonMeta(input, state): state carries the warnings and errors
\* pushed so far; the result carries the entries and the state afterwards
parseCommonMeta(inp, o, warnings, errors) ==
    CommonMetaLoop(CommonMetaToks(inp, 1, <<>>), 1, o,
                   [out |-> <<>>, warnings |-> warnings, errors |-> errors])

-----------------------------------------------------------------------------
(* Strict tokenizer                                                        *)

\* while (i < len && body[i] === ";") i++
RECURSIVE SkipSemis(_, _)
SkipSemis(body, i) ==
    IF i <= Len(body) /\ body[i] = SEMI THEN SkipSemis(body, i + 1) ELSE i

\* the token scan: the position where the scan stops (Len(body) + 1 at the
\* end of input) and whether it stopped inside quotes
RECURSIVE ScanToken(_, _, _, _)
ScanToken(body, i, inQuote, esc) ==
    IF i > Len(body) THEN [pos |-> i, inQuote |-> inQuote]
    ELSE IF esc THEN ScanToken(body, i + 1, inQuote, FALSE)
    ELSE IF body[i] = BACKSLASH THEN ScanToken(body, i + 1, inQuote, TRUE)
    ELSE IF body[i] = QUOTE THEN ScanToken(body, i + 1, ~inQuote, FALSE)
    ELSE IF body[i] = SEMI /\ ~inQuote THEN [pos |-> i, inQuote |-> inQuote]
    ELSE ScanToken(body, NextIn(body, i + 1, {BACKSLASH, QUOTE, SEMI}), inQuote, FALSE)

\* the scan for the key/value "=": its position in the token, 0 when none
RECURSIVE FindEq(_, _, _, _)
FindEq(token, k, q, e) ==
    IF k > Len(token) THEN 0
    ELSE IF e THEN FindEq(token, k + 1, q, FALSE)
    ELSE IF token[k] = BACKSLASH THEN FindEq(token, k + 1, q, TRUE)
    ELSE IF token[k] = QUOTE THEN FindEq(token, k + 1, ~q, FALSE)
    ELSE IF token[k] = EQ /\ ~q THEN k
    ELSE FindEq(token, NextIn(token, k + 1, {BACKSLASH, QUOTE, EQ}), q, FALSE)

\* the unescape loop over the inside of a quoted literal
RECURSIVE Unescape(_, _, _, _)
Unescape(inner, p, esc2, outStr) ==
    IF p > Len(inner) THEN [outStr |-> outStr, esc2 |-> esc2]
    ELSE IF esc2 THEN Unescape(inner, p + 1, FALSE, Append(outStr, inner[p]))
    ELSE IF inner[p] = BACKSLASH THEN Unescape(inner, p + 1, TRUE, outStr)
    ELSE LET j == NextIn(inner, p, {BACKSLASH})
         IN  Unescape(inner, j, FALSE, outStr \o SubSeq(inner, p, j - 1))

\* key, value and failure of one trimmed non-empty token
XMSCoreToken(token) ==
    LET eqIndex == FindEq(token, 1, FALSE, FALSE)
        originalKey == IF eqIndex = 0 THEN token
                       ELSE trim(SubSeq(token, 1, eqIndex - 1))
        rhs == trim(SliceFrom(token, eqIndex + 1))
        hasValue == eqIndex # 0 /\ rhs # <<>>
        quoted == hasValue /\ startsWith(rhs, QUOTE)
        un == Unescape(SubSeq(rhs, 2, Len(rhs) - 1), 1, FALSE, <<>>)
        error == IF ~quoted THEN ""
                 ELSE IF Len(rhs) < 2 \/ ~endsWith(rhs, QUOTE) THEN ERR_MALFORMED
                 ELSE IF un.esc2 THEN ERR_DANGLING
                 ELSE ""
        finalValue == IF ~hasValue THEN NullRaw
                      ELSE IF quoted THEN StrRaw(un.outStr)
                      ELSE StrRaw(rhs)
    IN  [originalKey |-> originalKey, key |-> toLowerCase(originalKey),
         error |-> error, finalValue |-> finalValue]

RECURSIVE XMSCoreLoop(_, _, _, _)
XMSCoreLoop(body, i0, o, state) ==
    LET i == SkipSemis(body, i0)
        sc == ScanToken(body, i, FALSE, FALSE)
        token == trim(SubSeq(body, i, sc.pos - 1))
        next == IF sc.pos <= Len(body) /\ body[sc.pos] = SEMI
                THEN sc.pos + 1 ELSE sc.pos
        tk == XMSCoreToken(token)
    IN  IF i > Len(body)
        THEN [ok |-> TRUE, out |-> state.out, warnings |-> state.warnings,
              errors |-> state.errors]
        ELSE IF sc.inQuote
        THEN [ok |-> FALSE, out |-> <<>>, warnings |-> state.warnings,
              errors |-> Append(state.errors, ERR_UNTERMINATED)]
        ELSE IF token = <<>> THEN XMSCoreLoop(body, next, o, state)
        ELSE IF tk.error # ""
        THEN [ok |-> FALSE, out |-> <<>>, warnings |-> state.warnings,
              errors |-> Append(state.errors, tk.error)]
        ELSE IF ~KEY_PATTERN(tk.key)
        THEN IF ~o.keepInvalidKeys
             THEN XMSCoreLoop(body, next, o, state)
             ELSE XMSCoreLoop(body, next, o,
                    [state EXCEPT !.out = Append(@, RawEntry(tk.key, tk.finalValue)),
                                  !.warnings = Append(@,
                                      Warning("invalid_key_accepted", tk.originalKey, <<>>, 0))])
        ELSE XMSCoreLoop(body, next, o,
               [state EXCEPT !.out = Append(@, RawEntry(tk.key, tk.finalValue))])

\* parseXMSCore(body, state): ok = FALSE models the thrown "Malformed quotes"
parseXMSCore(body, o, warnings, errors) ==
    XMSCoreLoop(body, 1, o, [out |-> <<>>, warnings |-> warnings, errors |-> errors])

-----------------------------------------------------------------------------
(* Limit enforcer and value coercer                                        *)

USERNAME_LIMIT == 16

MESSAGE_LIMIT == 255

K_USERNAME == <<"u", "s", "e", "r", "n", "a", "m", "e">>

K_MESSAGE == <<"m", "e", "s", "s", "a", "g", "e">>

K_ERROR == <<"e", "r", "r", "o", "r">>

K_ERROR_MESSAGE == K_ERROR \o <<DOT>> \o K_MESSAGE

\* the limit table of enforceLength; 0 stands for "no limit" (undefined)
LimitOf(key) ==
    IF key = K_USERNAME THEN USERNAME_LIMIT
    ELSE IF key \in {K_MESSAGE, K_ERROR_MESSAGE, K_ERROR} THEN MESSAGE_LIMIT
    ELSE 0

\* enforceLength with the cut one character beyond the limit
enforceLength_cutLate(key, value) ==
    LET limit == LimitOf(key)
    IN  IF limit # 0 /\ Len(value) > limit
        THEN [value |-> SubSeq(value, 1, limit + 1),
              warn |-> <<Warning("truncated", key, <<>>, limit)>>]
        ELSE [value |-> value, warn |-> <<>>]

\* enforceLength(key, value, warn): the value returned and the warnings given
enforceLength(key, value) ==
    LET limit == LimitOf(key)
    IN  IF limit # 0 /\ Len(value) > limit
        THEN [value |-> SubSeq(value, 1, limit),
              warn |-> <<Warning("truncated", key, <<>>, limit)>>]
        ELSE [value |-> value, warn |-> <<>>]

DigitSeq == <<"0", "1", "2", "3", "4", "5", "6", "7", "8", "9">>

DigitVal(c) == (CHOOSE i \in 1..10 : DigitSeq[i] = c) - 1

IsDigits(s) == Len(s) >= 1 /\ \A i \in 1..Len(s) : s[i] \in Digits

\* parseInt(s, 10) and Number(s) of a digit run
RECURSIVE DigitsToNat(_)
DigitsToNat(s) ==
    IF s = <<>> THEN 0
    ELSE 10 * DigitsToNat(SubSeq(s, 1, Len(s) - 1)) + DigitVal(s[Len(s)])

\* String(n) of a natural number
RECURSIVE NatToDigits(_)
NatToDigits(n) ==
    IF n < 10 THEN <<DigitSeq[n + 1]>>
    ELSE Append(NatToDigits(n \div 10), DigitSeq[(n % 10) + 1])

\* the decomposition of raw under /^-?(?:\d+)(?:\.\d+)?(?:[eE][+-]?\d+)?$/
NumberParts(raw) ==
    LET neg == startsWith(raw, "-")
        r1 == IF neg THEN Tail(raw) ELSE raw
        ePos == SetMin({i \in 1..Len(r1) : r1[i] \in {"e", "E"}} \cup {Len(r1) + 1})
        mant == SubSeq(r1, 1, ePos - 1)
        hasExp == ePos <= Len(r1)
        ex0 == SliceFrom(r1, ePos + 1)
        exNeg == startsWith(ex0, "-")
        ex == IF startsWith(ex0, "-") \/ startsWith(ex0, "+") THEN Tail(ex0) ELSE ex0
        dPos == indexOf(mant, DOT)
        int == IF dPos = 0 THEN mant ELSE SubSeq(mant, 1, dPos - 1)
        frac == IF dPos = 0 THEN <<>> ELSE SliceFrom(mant, dPos + 1)
    IN  [ok |-> IsDigits(int) /\ (dPos = 0 \/ IsDigits(frac)) /\ (~hasExp \/ IsDigits(ex)),
         neg |-> neg, digits |-> int \o frac,
         exp |-> (IF ~hasExp \/ ~IsDigits(ex) THEN 0
                  ELSE IF exNeg THEN 0 - DigitsToNat(ex) ELSE DigitsToNat(ex))
                 - Len(frac)]

RECURSIVE Normalise(_, _)
Normalise(m, e) ==
    IF m = 0 THEN NumVal(0, 0)
    ELSE IF m % 10 = 0 THEN Normalise(m \div 10, e + 1)
    ELSE NumVal(m, e)

\* Number(raw) for a raw that matches the pattern
Number(raw) ==
    LET np == NumberParts(raw)
        m == DigitsToNat(np.digits)
    IN  Normalise(IF np.neg THEN 0 - m ELSE m, np.exp)

\* the for-in loop over customBooleanLiterals, in property order
RECURSIVE CustomBoolean(_, _, _)
CustomBoolean(lits, k, lower) ==
    IF k > Len(lits) THEN Undefined
    ELSE IF toLowerCase(lits[k].lit) = lower THEN BoolVal(lits[k].val)
    ELSE CustomBoolean(lits, k + 1, lower)

T_TRUE == <<"t", "r", "u", "e">>

T_FALSE == <<"f", "a", "l", "s", "e">>

\* coerceValue with the numeric coercion tried before the boolean one
coerceValue_numbersFirst(raw, o) ==
    LET lower == toLowerCase(raw.s)
        custom == CustomBoolean(o.customBooleanLiterals, 1, lower)
    IN  IF raw.isNull THEN NullVal
        ELSE IF o.coerceNumbers /\ NumberParts(raw.s).ok /\ o.numberPredicate # "reject"
        THEN Number(raw.s)
        ELSE IF o.coerceBooleans /\ lower = T_TRUE THEN BoolVal(TRUE)
        ELSE IF o.coerceBooleans /\ lower = T_FALSE THEN BoolVal(FALSE)
        ELSE IF o.coerceBooleans /\ custom # Undefined THEN custom
        ELSE StrVal(raw.s)

coerceValue(raw, o) ==
    LET lower == toLowerCase(raw.s)
        custom == CustomBoolean(o.customBooleanLiterals, 1, lower)
    IN  IF raw.isNull THEN NullVal
        ELSE IF o.coerceBooleans /\ lower = T_TRUE THEN BoolVal(TRUE)
        ELSE IF o.coerceBooleans /\ lower = T_FALSE THEN BoolVal(FALSE)
        ELSE IF o.coerceBooleans /\ custom # Undefined THEN custom
        ELSE IF o.coerceNumbers /\ NumberParts(raw.s).ok /\ o.numberPredicate # "reject"
        THEN Number(raw.s)
        ELSE StrVal(raw.s)

-----------------------------------------------------------------------------
(* Value tree, nested assigner, lookup                                     *)

\* The value tree is the map from the property paths that exist (sequences
\* of property names below the root) to the value held there; an object is
\* ObjVal at its own path plus the paths below it.  Property names inherited
\* from Object.prototype are not among the names the model draws.

EmptyNode == [q \in {} |-> NullVal]

IsPrefix(p, q) == Len(p) <= Len(q) /\ SubSeq(q, 1, Len(p)) = p

\* The objects of the tree are ordinary objects ({}): they inherit the
\* accessor __proto__ and the property constructor from Object.prototype.
\* The tree holds their own properties.
PROTO == <<"_", "_", "p", "r", "o", "t", "o", "_", "_">>

K_CONSTRUCTOR == <<"c", "o", "n", "s", "t", "r", "u", "c", "t", "o", "r">>

\* the path of Object.prototype itself, for the properties a walk through
\* __proto__ assigns to it; the segment is no property name
OBJECT_PROTOTYPE == <<<<"%Object.prototype%">>>>

\* the value of cur.__proto__ (an object) and of cur.constructor (a function)
PrototypeVal == [t |-> "prototype", s |-> <<>>, b |-> FALSE, m |-> 0, e |-> 0]

FunctionVal == [t |-> "function", s |-> <<>>, b |-> FALSE, m |-> 0, e |-> 0]

\* kept at cur.__proto__ after cur.__proto__ = null: cur has no prototype
NoPrototype == [t |-> "no_prototype", s |-> <<>>, b |-> FALSE, m |-> 0, e |-> 0]

Parent(path) == SubSeq(path, 1, Len(path) - 1)

Last(path) == path[Len(path)]

\* the object at cur still inherits from Object.prototype
HasPrototype(data, cur) == cur # OBJECT_PROTOTYPE /\ Append(cur, PROTO) \notin DOMAIN data

OwnProp(data, path) == path \in DOMAIN data /\ data[path] # NoPrototype

\* Object.prototype[seg], with the properties assigned to it
Inherited(data, seg) ==
    IF OwnProp(data, Append(OBJECT_PROTOTYPE, seg)) THEN data[Append(OBJECT_PROTOTYPE, seg)]
    ELSE IF seg = PROTO THEN NullVal
    ELSE IF seg = K_CONSTRUCTOR THEN FunctionVal
    ELSE Undefined

\* cur[seg] = value on own properties
SetOwn(data, path, value) ==
    LET keep == {q \in DOMAIN data : ~IsPrefix(path, q)}
    IN  [q \in keep \cup {path} |-> IF q = path THEN value ELSE data[q]]

\* cur[seg] = value, with path the path of cur followed by seg: the setter
\* of __proto__ takes null, and ignores a string, number or boolean
SetProp(data, path, value) ==
    IF Last(path) = PROTO /\ Parent(path) = OBJECT_PROTOTYPE THEN data
    ELSE IF Last(path) = PROTO /\ HasPrototype(data, Parent(path))
    THEN IF value.t = "null" THEN SetOwn(data, path, NoPrototype) ELSE data
    ELSE SetOwn(data, path, value)

\* cur[seg]: an own property, or else what the prototype gives
GetProp(data, path) ==
    IF OwnProp(data, path) THEN data[path]
    ELSE IF Parent(path) = OBJECT_PROTOTYPE THEN Inherited(data, Last(path))
    ELSE IF ~HasPrototype(data, Parent(path)) THEN Undefined
    ELSE IF Last(path) = PROTO THEN PrototypeVal
    ELSE Inherited(data, Last(path))

\* the path of the object a walk continues on after reading cur[seg]
StepInto(data, path) ==
    IF path # <<>> /\ GetProp(data, path) = PrototypeVal THEN OBJECT_PROTOTYPE ELSE path

\* the segment loop of assignNested with an existing non-object always
\* replaced
RECURSIVE AssignWalk_replace(_, _, _, _, _, _, _)
AssignWalk_replace(data, key, segs, i, cur, value, o) ==
    LET path == Append(cur, segs[i])
        exist == GetProp(data, path)
    IN  IF i = Len(segs)
        THEN [data |-> SetProp(data, path, value), warn |-> <<>>]
        ELSE IF exist.t = "object"
        THEN AssignWalk_replace(data, key, segs, i + 1, path, value, o)
        ELSE AssignWalk_replace(SetProp(data, path, ObjVal), key, segs, i + 1, path, value, o)

\* the segment loop with the skip policy applied to the last segment too: an
\* object found there is kept, with a warning
RECURSIVE AssignWalk_keepObject(_, _, _, _, _, _, _)
AssignWalk_keepObject(data, key, segs, i, cur, value, o) ==
    LET path == Append(cur, segs[i])
        exist == GetProp(data, path)
    IN  IF i = Len(segs)
        THEN IF exist.t = "object" /\ ~o.overwriteScalarsForNested
             THEN [data |-> data, warn |-> <<Warning("skip_nested", key, segs[i], 0)>>]
             ELSE [data |-> SetProp(data, path, value), warn |-> <<>>]
        ELSE IF exist.t \in {"object", "prototype"}
        THEN AssignWalk_keepObject(data, key, segs, i + 1, StepInto(data, path), value, o)
        ELSE IF exist.t = "undefined" \/ o.overwriteScalarsForNested
        THEN AssignWalk_keepObject(SetProp(data, path, ObjVal), key, segs, i + 1, path, value, o)
        ELSE [data |-> data, warn |-> <<Warning("skip_nested", key, segs[i], 0)>>]

\* the segment loop of assignNested
RECURSIVE AssignWalk(_, _, _, _, _, _, _)
AssignWalk(data, key, segs, i, cur, value, o) ==
    LET path == Append(cur, segs[i])
        exist == GetProp(data, path)
    IN  IF i = Len(segs)
        THEN [data |-> SetProp(data, path, value), warn |-> <<>>]
        ELSE IF exist.t \in {"object", "prototype"}
        THEN AssignWalk(data, key, segs, i + 1, StepInto(data, path), value, o)
        ELSE IF exist.t = "undefined" \/ o.overwriteScalarsForNested
        THEN AssignWalk(SetProp(data, path, ObjVal), key, segs, i + 1, path, value, o)
        ELSE [data |-> data, warn |-> <<Warning("skip_nested", key, segs[i], 0)>>]

\* assignNested with the flat key left out when the depth limit is exceeded
assignNested_flatWithinDepth(root, key, value, o) ==
    LET flat == IF o.createFlatKeys THEN SetProp(root, <<key>>, value) ELSE root
        segs == split(key, DOT)
    IN  IF ~o.createNestedKeys THEN [data |-> flat, warn |-> <<>>]
        ELSE IF \E k \in 1..Len(segs) : Len(segs[k]) = 0
        THEN [data |-> flat, warn |-> <<>>]
        ELSE IF Len(segs) > o.maxNestingDepth
        THEN [data |-> root,
              warn |-> <<Warning("depth", key, <<>>, o.maxNestingDepth)>>]
        ELSE AssignWalk(flat, key, segs, 1, <<>>, value, o)

\* assignNested with the depth test segs.length >= maxNestingDepth
assignNested_depthInclusive(root, key, value, o) ==
    LET flat == IF o.createFlatKeys THEN SetProp(root, <<key>>, value) ELSE root
        segs == split(key, DOT)
    IN  IF ~o.createNestedKeys THEN [data |-> flat, warn |-> <<>>]
        ELSE IF \E k \in 1..Len(segs) : Len(segs[k]) = 0
        THEN [data |-> flat, warn |-> <<>>]
        ELSE IF Len(segs) >= o.maxNestingDepth
        THEN [data |-> flat,
              warn |-> <<Warning("depth", key, <<>>, o.maxNestingDepth)>>]
        ELSE AssignWalk(flat, key, segs, 1, <<>>, value, o)

assignNested(root, key, value, o) ==
    LET flat == IF o.createFlatKeys THEN SetProp(root, <<key>>, value) ELSE root
        segs == split(key, DOT)
    IN  IF ~o.createNestedKeys THEN [data |-> flat, warn |-> <<>>]
        ELSE IF \E k \in 1..Len(segs) : Len(segs[k]) = 0
        THEN [data |-> flat, warn |-> <<>>]
        ELSE IF Len(segs) > o.maxNestingDepth
        THEN [data |-> flat,
              warn |-> <<Warning("depth", key, <<>>, o.maxNestingDepth)>>]
        ELSE AssignWalk(flat, key, segs, 1, <<>>, value, o)

\* one iteration of the loop of ingest on the state st = (entries, data,
\* warnings): entry k is limited in place, coerced and assigned
IngestEntry(st, k, o) ==
    LET e == st.entries[k]
        lim == IF o.enforceLimits /\ ~e.value.isNull
               THEN enforceLength(e.name, e.value.s)
               ELSE [value |-> e.value.s, warn |-> <<>>]
        value == IF e.value.isNull THEN NullRaw ELSE StrRaw(lim.value)
        as == assignNested(st.data, e.name, coerceValue(value, o), o)
    IN  [entries |-> [st.entries EXCEPT ![k].value = value],
         data |-> as.data,
         warnings |-> st.warnings \o lim.warn \o as.warn]

\* the state of ingest after its first n iterations
RECURSIVE IngestUpTo(_, _, _)
IngestUpTo(st, n, o) ==
    IF n = 0 THEN st ELSE IngestEntry(IngestUpTo(st, n - 1, o), n, o)

ingest(entries, data, warnings, o) ==
    IngestUpTo([entries |-> entries, data |-> data, warnings |-> warnings],
               Len(entries), o)

RECURSIVE GetWalk(_, _, _, _, _)
GetWalk(data, path, segs, i, cur) ==
    IF i > Len(segs) THEN GetProp(data, cur)
    ELSE IF /\ (cur = <<>> \/ GetProp(data, cur).t \in {"object", "prototype"})
            /\ GetProp(data, Append(StepInto(data, cur), segs[i])) # Undefined
    THEN GetWalk(data, path, segs, i + 1, Append(StepInto(data, cur), segs[i]))
    ELSE GetProp(data, <<path>>)

getNested(data, path) == GetWalk(data, path, split(path, DOT), 1, <<>>)

get(data, path) == getNested(data, path)

-----------------------------------------------------------------------------
(* Version dispatcher, Document, serializer                                *)

XMS_SLASH == <<"x", "m", "s", "/">>

\* the end of the digit run that starts at position i
RECURSIVE DigitRunEnd(_, _)
DigitRunEnd(s, i) ==
    IF i <= Len(s) /\ s[i] \in Digits THEN DigitRunEnd(s, i + 1) ELSE i - 1

\* /^xms\/(\d+)/.exec(input): whether it matches, the digit run m[1] and the
\* length of the match m[0]
VersionMatch(inp) ==
    LET end == DigitRunEnd(inp, 5)
    IN  IF Len(inp) >= 5 /\ SubSeq(inp, 1, 4) = XMS_SLASH /\ inp[5] \in Digits
        THEN [matched |-> TRUE, digits |-> SubSeq(inp, 5, end), len |-> end]
        ELSE [matched |-> FALSE, digits |-> <<>>, len |-> 0]

\* /^xms\/\d+;/.test(input)
isProbablyXMS(inp) ==
    LET m == VersionMatch(inp)
    IN  m.matched /\ m.len < Len(inp) /\ inp[m.len + 1] = SEMI

\* the fields of a Document before its first parse pass
NewDoc ==
    [version |-> 0, isFallback |-> FALSE, entries |-> <<>>, data |-> EmptyNode,
     warnings |-> <<>>, errors |-> <<>>]

\* the outcome of a legacy pass: version 0, fallback
Fallback(legacy) ==
    [version |-> 0, isFallback |-> TRUE, entries |-> legacy.out,
     warnings |-> legacy.warnings, errors |-> legacy.errors]

\* StrictOutcome with the recovery pass run over the body instead of the
\* input
StrictOutcome_retryBody(m, strict, inp, o) ==
    IF strict.ok
    THEN [version |-> DigitsToNat(m.digits), isFallback |-> FALSE,
          entries |-> strict.out, warnings |-> strict.warnings, errors |-> strict.errors]
    ELSE IF o.reparseOnFallback
    THEN Fallback(parseCommonMeta(SliceFrom(inp, m.len + 1), o, strict.warnings, strict.errors))
    ELSE [version |-> 0, isFallback |-> TRUE, entries |-> <<>>,
          warnings |-> strict.warnings, errors |-> strict.errors]

\* the try/catch around the strict pass: strict is its result for the match
\* m, and the legacy pass of the catch block continues its warnings and errors
StrictOutcome(m, strict, inp, o) ==
    IF strict.ok
    THEN [version |-> DigitsToNat(m.digits), isFallback |-> FALSE,
          entries |-> strict.out, warnings |-> strict.warnings, errors |-> strict.errors]
    ELSE IF o.reparseOnFallback
    THEN Fallback(parseCommonMeta(inp, o, strict.warnings, strict.errors))
    ELSE [version |-> 0, isFallback |-> TRUE, entries |-> <<>>,
          warnings |-> strict.warnings, errors |-> strict.errors]

\* the branch on the match m of the version prefix
DispatchOn(m, inp, o) ==
    IF m.matched
    THEN StrictOutcome(m, parseXMSCore(SliceFrom(inp, m.len + 1), o, <<>>, <<>>), inp, o)
    ELSE Fallback(parseCommonMeta(inp, o, <<>>, <<>>))

\* the tokenizing half of parse(): version, fallback flag, raw entries and
\* the internal state, before ingest
Dispatch(inp, o) == DispatchOn(VersionMatch(inp), inp, o)

\* the Document fields after a dispatch d and its ingest ing
Ingested(d, ing) ==
    [version |-> d.version, isFallback |-> d.isFallback,
     entries |-> ing.entries, data |-> ing.data,
     warnings |-> ing.warnings, errors |-> d.errors]

IngestDispatched(d, o) == Ingested(d, ingest(d.entries, EmptyNode, d.warnings, o))

\* parse(): every field is reset, then set from the dispatch and the ingest
parse(inp, o) == IngestDispatched(Dispatch(inp, o), o)

\* the warnings passed to warn, and so to opts.onWarning, while a list of
\* warnings grew from before to after
WarnCalls(before, after) == SubSeq(after, Len(before) + 1, Len(after))

\* the state ingest starts in after the dispatch d
PassStart(d) == [entries |-> d.entries, data |-> EmptyNode, warnings |-> d.warnings]

\* the first iteration of ingest that calls warn
FirstWarned(st, o) ==
    SetMin({k \in 1..Len(st.entries) :
               Len(IngestUpTo(st, k, o).warnings) > Len(st.warnings)})

\* enforceLength calls warn for the entry e
CutShort(e, o) ==
    o.enforceLimits /\ ~e.value.isNull /\ enforceLength(e.name, e.value.s).warn # <<>>

\* the fields when the callback raises in iteration k of ingest, b being the
\* state before it: a raise out of enforceLength leaves the tree as it was,
\* one out of assignNested leaves what was assigned before the call of warn;
\* the assignments of warnings and errors after ingest are not reached
InterruptedIn(d, b, k, o) ==
    [version |-> d.version, isFallback |-> d.isFallback, entries |-> d.entries,
     data |-> IF CutShort(d.entries[k], o) THEN b.data ELSE IngestEntry(b, k, o).data,
     warnings |-> <<>>, errors |-> <<>>]

InterruptedAt(d, k, o) == InterruptedIn(d, IngestUpTo(PassStart(d), k - 1, o), k, o)

Interrupted(d, o) == InterruptedAt(d, FirstWarned(PassStart(d), o), o)

\* a pass over the dispatch d with the ingest ing: the fields, the calls of
\* opts.onWarning, and whether the callback raised (at its first call, which
\* ends the pass)
PassOutcome(d, ing, o) ==
    [doc |-> IF o.onWarning = "throws" /\ Len(ing.warnings) > Len(d.warnings)
             THEN Interrupted(d, o) ELSE Ingested(d, ing),
     calls |-> IF o.onWarning = "none" THEN <<>>
               ELSE IF o.onWarning = "throws"
               THEN SubSeq(ing.warnings, Len(d.warnings) + 1,
                           IF Len(ing.warnings) > Len(d.warnings)
                           THEN Len(d.warnings) + 1 ELSE Len(d.warnings))
               ELSE WarnCalls(d.warnings, ing.warnings),
     raised |-> o.onWarning = "throws" /\ Len(ing.warnings) > Len(d.warnings)]

PassDispatched(d, o) == PassOutcome(d, ingest(d.entries, EmptyNode, d.warnings, o), o)

\* one call of parse() with its side channel
parsePass(inp, o) == PassDispatched(Dispatch(inp, o), o)

\* the field initialisers of the class, as an outcome without a pass
NoPass == [doc |-> NewDoc, calls |-> <<>>, raised |-> FALSE]

\* a value that is no string (a number, null, an object): the marker is no
\* sequence of characters
NotAString == <<"<not a string>">>

IsString(inp) == inp # NotAString

\* new XMSDoc(input, options): TypeError for a value that is no string, no
\* pass when deferred
construct(inp, o) ==
    IF ~IsString(inp) THEN [NoPass EXCEPT !.raised = TRUE]
    ELSE IF o.defer THEN NoPass
    ELSE parsePass(inp, o)

ERR_UNEXPECTED_INPUT == "Unexpected parser failure: Input must be a string."

\* the message of the error a raising onWarning callback is given here
ERR_UNEXPECTED_CALLBACK == "Unexpected parser failure: onWarning raised."

\* the catch block of safeParse: a deferred Document over "" with default
\* options, marked as fallback, with the one error
Degraded(msg) == [NewDoc EXCEPT !.version = 0, !.isFallback = TRUE, !.errors = <<msg>>]

\* safeParse(input, options) from the outcome r of the constructor: the
\* Document, its private input and options, and the calls of onWarning
safeParseOn(r, inp, o) ==
    IF r.raised
    THEN [doc |-> Degraded(IF IsString(inp) THEN ERR_UNEXPECTED_CALLBACK
                           ELSE ERR_UNEXPECTED_INPUT),
          input |-> <<>>, opts |-> [DEFAULT_OPTIONS EXCEPT !.defer = TRUE],
          calls |-> r.calls]
    ELSE [doc |-> r.doc, input |-> inp, opts |-> o, calls |-> r.calls]

safeParse(inp, o) == safeParseOn(construct(inp, o), inp, o)

\* deepClone of a value tree: a copy, property by property
deepClone(data) == [q \in DOMAIN data |-> data[q]]

\* the version and isFallback options of from(): <<>> when absent
VersionOr(x, default) == IF x.version # <<>> THEN x.version[1] ELSE default

IsFallbackOr(x, default) == IF x.isFallback # <<>> THEN x.isFallback[1] ELSE default

\* from(source, options), document-like branch: the fields are copied
fromParsedLike(source, x) ==
    [version |-> VersionOr(x, source.version),
     isFallback |-> IsFallbackOr(x, source.isFallback),
     entries |-> [k \in 1..Len(source.entries) |->
                    RawEntry(source.entries[k].name, source.entries[k].value)],
     data |-> deepClone(source.data),
     warnings |-> IF x.preserveWarnings THEN source.warnings ELSE <<>>,
     errors |-> IF x.preserveErrors THEN source.errors ELSE <<>>]

\* the Document from() fills before it calls ingest
Prepared(entries, x) ==
    [version |-> VersionOr(x, 1), isFallback |-> IsFallbackOr(x, FALSE),
     entries |-> entries, warnings |-> <<>>, errors |-> <<>>]

\* from(source, options), entry-array branch
fromEntries(source, o, x) ==
    PassDispatched(
        Prepared([k \in 1..Len(source) |->
                    RawEntry(toLowerCase(source[k].name), source[k].value)], x), o)

\* String(v) of a whole number
NumberToString(v) ==
    (IF v.m < 0 THEN <<"-">> ELSE <<>>)
        \o NatToDigits(IF v.m < 0 THEN 0 - v.m ELSE v.m) \o Rep("0", v.e)

\* pushPrim: the raw value of a primitive
pushPrim(v) ==
    IF v.t = "null" THEN NullRaw
    ELSE IF v.t = "string" THEN StrRaw(v.s)
    ELSE IF v.t = "number" THEN StrRaw(NumberToString(v))
    ELSE StrRaw(IF v.b THEN T_TRUE ELSE T_FALSE)

\* flattenNodeToEntries over the leaves of a node in the order of the walk,
\* each with its path of property names and array indices
flattenNodeToEntries(leaves) ==
    [k \in 1..Len(leaves) |->
        RawEntry(toLowerCase(join(leaves[k].path, <<DOT>>)), pushPrim(leaves[k].value))]

\* from(source, options), node branch
fromNode(leaves, o, x) == PassDispatched(Prepared(flattenNodeToEntries(leaves), x), o)

\* the resets at the head of parse()
Reset_keepLists(prev) ==
    [prev EXCEPT !.version = 0, !.isFallback = FALSE, !.entries = <<>>, !.data = EmptyNode]

Reset(prev) ==
    [prev EXCEPT !.version = 0, !.isFallback = FALSE, !.entries = <<>>,
                 !.data = EmptyNode, !.warnings = <<>>, !.errors = <<>>]

\* parse() on a Document whose fields were reset to start: the fields of
\* the pass, the warnings and errors assigned only when there are any
Settle(start, fields) ==
    [fields EXCEPT !.warnings = IF fields.warnings # <<>> THEN @ ELSE start.warnings,
                   !.errors = IF fields.errors # <<>> THEN @ ELSE start.errors]

\* /[\s;="\\]/.test(value)
NeedsQuotes(value) ==
    \E i \in 1..Len(value) : value[i] \in Whitespace \cup {SEMI, EQ, QUOTE, BACKSLASH}

RECURSIVE EscapeInto(_, _, _)
EscapeInto(value, i, buf) ==
    LET j == NextIn(value, i, {QUOTE, BACKSLASH})
    IN  IF i > Len(value) THEN buf
        ELSE IF value[i] \in {QUOTE, BACKSLASH}
        THEN EscapeInto(value, i + 1, buf \o <<BACKSLASH, value[i]>>)
        ELSE EscapeInto(value, j, buf \o SubSeq(value, i, j - 1))

\* the token of an entry when only double quotes are escaped
XMSToken_quotesOnly(e) ==
    IF e.value.isNull THEN e.name
    ELSE IF e.value.s = <<>> THEN Append(e.name, EQ)
    ELSE IF NeedsQuotes(e.value.s)
    THEN e.name \o <<EQ, QUOTE>>
         \o Concat([i \in 1..Len(e.value.s) |->
                       IF e.value.s[i] = QUOTE THEN <<BACKSLASH, QUOTE>>
                       ELSE <<e.value.s[i]>>])
         \o <<QUOTE>>
    ELSE e.name \o <<EQ>> \o e.value.s

\* the token toXMS pushes for one entry
XMSToken(e) ==
    IF e.value.isNull THEN e.name
    ELSE IF e.value.s = <<>> THEN Append(e.name, EQ)
    ELSE IF NeedsQuotes(e.value.s)
    THEN e.name \o <<EQ>> \o Append(EscapeInto(e.value.s, 1, <<QUOTE>>), QUOTE)
    ELSE e.name \o <<EQ>> \o e.value.s

RECURSIVE XMSTokens(_, _)
XMSTokens(entries, k) ==
    IF k > Len(entries) THEN <<>>
    ELSE IF ~KEY_PATTERN(entries[k].name) THEN XMSTokens(entries, k + 1)
    ELSE <<XMSToken(entries[k])>> \o XMSTokens(entries, k + 1)

toXMS(d) ==
    LET tokens == XMSTokens(d.entries, 1)
        prefix == XMS_SLASH \o NatToDigits(d.version) \o <<SEMI>>
    IN  IF d.version = 0 THEN join(tokens, <<SEMI>>)
        ELSE IF Len(tokens) > 0 THEN prefix \o join(tokens, <<SEMI>>)
        ELSE prefix

-----------------------------------------------------------------------------
(* Inputs                                                                  *)

\* the longest body drawn character by character
MaxLen == 4

BodyChars == {"a", SEMI, EQ, QUOTE, BACKSLASH, SPACE}

RECURSIVE SeqsUpTo(_, _)
SeqsUpTo(S, n) ==
    IF n = 0 THEN {<<>>}
    ELSE LET shorter == SeqsUpTo(S, n - 1)
         IN  shorter \cup {Append(q, c) : q \in {r \in shorter : Len(r) = n - 1}, c \in S}

V_1 == XMS_SLASH \o <<"1">>

V_1_SEMI == XMS_SLASH \o <<"1", SEMI>>

V_0_SEMI == XMS_SLASH \o <<"0", SEMI>>

Prefixes == {<<>>, XMS_SLASH, V_1, V_1_SEMI, V_0_SEMI}

CharInputs == {p \o b : p \in Prefixes, b \in SeqsUpTo(BodyChars, MaxLen)}

TokenizerOptions ==
    {[DEFAULT_OPTIONS EXCEPT !.reparseOnFallback = r, !.keepInvalidKeys = k] :
        r \in BOOLEAN, k \in BOOLEAN}

\* how far beyond a limit the long values go
MaxOver == 1

K_A == <<"a">>

LimitedKeys == {K_USERNAME, K_MESSAGE, K_ERROR, K_ERROR_MESSAGE}

\* value lengths around the limit of a key (around the shorter limit for a
\* key that has none)
LengthsFor(key) ==
    LET limit == IF LimitOf(key) = 0 THEN USERNAME_LIMIT ELSE LimitOf(key)
    IN  (limit - 1)..(limit + MaxOver)

\* a value of n characters: bare, quoted, or quoted with an escaped quote
ValueForms(n) ==
    {Rep("a", n),
     <<QUOTE>> \o Rep("a", n) \o <<QUOTE>>,
     <<QUOTE, BACKSLASH, QUOTE>> \o Rep("a", n - 1) \o <<QUOTE>>}

LongTokens ==
    UNION {{k \o <<EQ>> \o v : v \in UNION {ValueForms(n) : n \in LengthsFor(k)}} :
              k \in LimitedKeys \cup {K_A}}

\* what follows the long token: nothing, a second truncated entry, a token
\* the strict tokenizer fails on
Suffixes ==
    {<<>>,
     <<SEMI>> \o K_USERNAME \o <<EQ>> \o Rep("b", USERNAME_LIMIT + MaxOver),
     <<SEMI, "a", EQ, QUOTE>>}

LimitInputs == {p \o t \o x : p \in {<<>>, V_1_SEMI}, t \in LongTokens, x \in Suffixes}

LimitOptions ==
    {[DEFAULT_OPTIONS EXCEPT !.enforceLimits = l, !.reparseOnFallback = r,
                             !.createFlatKeys = f] :
        l \in BOOLEAN, r \in BOOLEAN, f \in BOOLEAN}

\* the most tokens of an input drawn token by token
MaxToks == 2

\* the smaller of the two depth limits drawn
SmallDepth == 2

K_A_B == <<"a", DOT, "b">>

\* keys of three, five and six segments, and one with an empty segment
LongKeys ==
    {<<"a", DOT, "b", DOT, "c">>,
     <<"a", DOT, DOT, "b">>,
     <<"a", DOT, "b", DOT, "c", DOT, "d", DOT, "e">>,
     <<"a", DOT, "b", DOT, "c", DOT, "d", DOT, "e", DOT, "f">>}

\* a and a.b with either of two values, the bare token a, the longer keys
\* with one value
NestTokens ==
    {k \o <<EQ>> \o v : k \in {K_A, K_A_B}, v \in {<<"v">>, <<"w">>}}
        \cup {K_A} \cup {k \o <<EQ, "w">> : k \in LongKeys}

NestInputs ==
    {p \o join(q, <<SEMI>>) : p \in {<<>>, V_1_SEMI},
                              q \in SeqsUpTo(NestTokens, MaxToks) \ {<<>>}}

NestOptions ==
    {[DEFAULT_OPTIONS EXCEPT !.createFlatKeys = f, !.createNestedKeys = n,
                             !.overwriteScalarsForNested = w, !.maxNestingDepth = d] :
        f \in BOOLEAN, n \in BOOLEAN, w \in BOOLEAN,
        d \in {SmallDepth, DEFAULT_OPTIONS.maxNestingDepth}}

\* unversioned tokens under the keys a, a.b and __proto__: with a value,
\* with an empty value and bare
ProtoTokens ==
    {k \o <<EQ>> \o v : k \in {K_A, K_A_B, PROTO}, v \in {<<"v">>, <<>>}}
        \cup {K_A, PROTO}

ProtoInputs == {join(q, <<SEMI>>) : q \in SeqsUpTo(ProtoTokens, MaxToks) \ {<<>>}}

\* raw values: boolean words in several cases, numerals of every shape the
\* numeric pattern admits, near misses of the pattern, plain words
CoerceValues ==
    {<<"t", "r", "u", "e">>,
     <<"T", "R", "U", "E">>,
     <<"F", "a", "l", "s", "e">>,
     <<"y", "e", "s">>,
     <<"Y", "E", "S">>,
     <<"o", "n">>,
     <<"1">>,
     <<"0">>,
     <<"1", "0">>,
     <<"0", "1">>,
     <<"1", ".", "5">>,
     <<"-", "3">>,
     <<"1", "e", "2">>,
     <<"1", "E", "-", "1">>,
     <<"2", "e", "+", "1">>,
     <<".", "5">>,
     <<"1", ".">>,
     <<"+", "1">>,
     <<"1", "e">>,
     <<"a", "b", "c">>,
     <<"-">>,
     <<"1", ".", "5", ".", "2">>}

K_K == <<"k">>

\* k=<value> for every raw value, the bare token k, and k=""
CoerceInputs ==
    {p \o K_K \o <<EQ>> \o v : p \in {<<>>, V_1_SEMI}, v \in CoerceValues \cup {<<QUOTE, QUOTE>>}}
        \cup {<<>> \o K_K, V_1_SEMI \o K_K}

\* customBooleanLiterals in property order: none; { "1": false, Yes: true };
\* { on: true, true: false }
CustomLiterals ==
    {<<>>,
     <<[lit |-> <<"1">>, val |-> FALSE], [lit |-> <<"Y", "e", "s">>, val |-> TRUE]>>,
     <<[lit |-> <<"o", "n">>, val |-> TRUE], [lit |-> T_TRUE, val |-> FALSE]>>}

\* numberPredicate: absent, one that accepts every value, one that rejects
\* every value
NumberPredicates == {"none", "accept", "reject"}

CoerceOptions ==
    {[DEFAULT_OPTIONS EXCEPT !.coerceBooleans = b, !.coerceNumbers = n,
                             !.customBooleanLiterals = c, !.numberPredicate = q] :
        b \in BOOLEAN, n \in BOOLEAN, c \in CustomLiterals, q \in NumberPredicates}

-----------------------------------------------------------------------------
(* The state machine: a Document is constructed deferred over (input,      *)
(* opts), parsed, serialized, and the serialized string is parsed again    *)
(* under the same options.                                                 *)

\* the text of a string literal, character by character
K_A_SP_B == <<"A", SPACE, "b">>

K_DEEP == <<"a", DOT, "b", DOT, "c", DOT, "d", DOT, "e", DOT, "f">>

ONE == <<"1">>

\* inputs for the construction paths: legacy, strict, a key that fails the
\* pattern, a value over its limit, a key deeper than the depth limit, a
\* scalar in the way of a nested key, a quote that is never closed, and a
\* value that is no string
LifeStrings ==
    {K_A \o <<EQ>> \o ONE,
     V_1_SEMI \o K_A \o <<EQ>> \o ONE,
     V_1_SEMI \o K_A_SP_B \o <<EQ>> \o ONE,
     V_1_SEMI \o K_USERNAME \o <<EQ>> \o Rep("b", USERNAME_LIMIT + 1),
     V_1_SEMI \o K_A_SP_B \o <<SEMI>> \o K_DEEP \o <<EQ>> \o ONE,
     V_1_SEMI \o K_A \o <<EQ>> \o ONE \o <<SEMI>> \o K_A_B \o <<EQ>> \o ONE,
     V_1_SEMI \o K_A_SP_B \o <<SEMI>> \o K_A \o <<EQ, QUOTE>>}

LifeInputs == LifeStrings \cup {NotAString}

LifeOptions ==
    {[DEFAULT_OPTIONS EXCEPT !.defer = d, !.onWarning = w, !.coerceNumbers = n,
                             !.enforceLimits = l, !.keepInvalidKeys = k] :
        d \in BOOLEAN, w \in {"record", "throws"}, n \in BOOLEAN,
        l \in BOOLEAN, k \in BOOLEAN}

\* the options of from() besides the parse options
FromExtras ==
    [version : {<<>>, <<2>>}, isFallback : {<<>>, <<TRUE>>},
     preserveWarnings : BOOLEAN, preserveErrors : BOOLEAN]

\* entry arrays given to from(): an upper-case name, a null value, a value
\* over its limit, a key deeper than the depth limit
EntrySources ==
    {<<RawEntry(<<"A">>, StrRaw(ONE)), RawEntry(<<"b">>, NullRaw)>>,
     <<RawEntry(K_USERNAME, StrRaw(Rep("b", USERNAME_LIMIT + 1))),
       RawEntry(K_DEEP, StrRaw(ONE))>>}

\* the longest value of an entry log given to from()
MaxVal == 2

\* values of the entries to serialize: null, the empty string, and strings
\* over a letter, the characters the serializer quotes for, and a space
OutValues ==
    {NullRaw} \cup {StrRaw(v) : v \in SeqsUpTo({"b", QUOTE, BACKSLASH, SEMI, EQ, SPACE}, MaxVal)}

\* entries under a valid and an invalid name
OutEntries == {RawEntry(n, v) : n \in {K_A, K_A_SP_B}, v \in OutValues}

\* entries that stand before or after the entry under test: a plain one and
\* a username over its limit
OutNeighbours ==
    {RawEntry(K_A, StrRaw(<<"c">>)),
     RawEntry(K_USERNAME, StrRaw(Rep("b", USERNAME_LIMIT + 1)))}

OutLogs ==
    {<<e>> : e \in OutEntries}
        \cup {<<e, f>> : e \in OutEntries, f \in OutNeighbours}
        \cup {<<f, e>> : e \in OutEntries, f \in OutNeighbours}

OutVersions == {1, 2}

OutOptions == {[DEFAULT_OPTIONS EXCEPT !.enforceLimits = l] : l \in BOOLEAN}

\* the options of from(): a version, and the other extras left out
OutExtras(v) ==
    [version |-> <<v>>, isFallback |-> <<>>,
     preserveWarnings |-> TRUE, preserveErrors |-> TRUE]

Leaf(path, value) == [path |-> path, value |-> value]

\* nodes given to from(), as their leaves: {A: "1", b: {c: true, d: [5, null]}}
\* and {username: "bbbbbbbbbbbbbbbbb"}
NodeSources ==
    {<<Leaf(<<<<"A">>>>, StrVal(ONE)), Leaf(<<<<"b">>, <<"c">>>>, BoolVal(TRUE)),
       Leaf(<<<<"b">>, <<"d">>, <<"0">>>>, NumVal(5, 0)),
       Leaf(<<<<"b">>, <<"d">>, <<"1">>>>, NullVal)>>,
     <<Leaf(<<K_USERNAME>>, StrVal(Rep("b", USERNAME_LIMIT + 1)))>>}

\* document-like sources given to from(): Documents parsed from some of the
\* string inputs under the default options and without limits
ParsedSources ==
    {parse(i, o) : i \in {V_1_SEMI \o K_A \o <<EQ>> \o ONE,
                          V_1_SEMI \o K_USERNAME \o <<EQ>> \o Rep("b", USERNAME_LIMIT + 1),
                          V_1_SEMI \o K_A_SP_B \o <<SEMI>> \o K_A \o <<EQ, QUOTE>>},
                   o \in {DEFAULT_OPTIONS, [DEFAULT_OPTIONS EXCEPT !.enforceLimits = FALSE]}}

\* field values a caller assigns directly
Scribble ==
    [version |-> 7, isFallback |-> TRUE,
     entries |-> <<RawEntry(<<"z">>, StrRaw(<<"z">>))>>,
     data |-> SetProp(EmptyNode, <<<<"z">>>>, StrVal(<<"z">>)),
     warnings |-> <<Warning("truncated", <<"z">>, <<>>, 0)>>,
     errors |-> <<"stale">>]

Fresh == doc = NewDoc /\ pc = "new" /\ out = <<>> /\ doc2 = NewDoc /\ notified = <<>>

\* short inputs over the characters the tokenizers distinguish
Init == input \in CharInputs /\ opts \in TokenizerOptions /\ Fresh

\* inputs with values around the length limits
InitLimits == input \in LimitInputs /\ opts \in LimitOptions /\ Fresh

\* inputs of a few tokens with dotted keys
InitNest == input \in NestInputs /\ opts \in NestOptions /\ Fresh

\* unversioned inputs of a few tokens, parsed with the default options
InitProto == input \in ProtoInputs /\ opts = DEFAULT_OPTIONS /\ Fresh

\* no input string: the Documents are built by from()
InitOut == input = <<>> /\ opts \in OutOptions /\ Fresh

\* one entry k with a value to coerce
InitCoerce == input \in CoerceInputs /\ opts \in CoerceOptions /\ Fresh

\* doc = XMSDoc.parse(input, opts), which is also from(input, opts): the
\* constructor with defer false; nothing is returned when it raises
Parse ==
    /\ pc = "new"
    /\ \E r \in {construct(input, [opts EXCEPT !.defer = FALSE])} :
          /\ doc' = IF r.raised THEN doc ELSE r.doc
          /\ pc' = IF r.raised THEN "raised" ELSE "parsed"
          /\ notified' = r.calls
    /\ opts' = [opts EXCEPT !.defer = FALSE]
    /\ UNCHANGED <<input, out, doc2>>

\* out = doc.toXMS()
ToXMS ==
    /\ pc \in {"parsed", "from_entries", "from_parsed"}
    /\ out' = toXMS(doc)
    /\ pc' = "serialized"
    /\ UNCHANGED <<input, opts, doc, doc2, notified>>

\* doc2 = XMSDoc.parse(out, opts)
ParseOut ==
    /\ pc = "serialized"
    /\ \E r \in {parsePass(out, opts)} :
          /\ doc2' = IF r.raised THEN doc2 ELSE r.doc
          /\ pc' = IF r.raised THEN "raised" ELSE "reparsed"
          /\ notified' = notified \o r.calls
    /\ UNCHANGED <<input, opts, doc, out>>

Next == Parse \/ ToXMS \/ ParseOut

\* the inputs and options of the construction paths
InitLife == input \in LifeInputs /\ opts \in LifeOptions /\ Fresh

\* doc = new XMSDoc(input, opts)
New ==
    /\ pc = "new"
    /\ \E r \in {construct(input, opts)} :
          /\ doc' = IF r.raised THEN doc ELSE r.doc
          /\ pc' = IF r.raised THEN "raised" ELSE "constructed"
          /\ notified' = r.calls
    /\ UNCHANGED <<input, opts, out, doc2>>

\* doc = XMSDoc.safeParse(input, opts)
SafeParse ==
    /\ pc = "new"
    /\ \E r \in {safeParse(input, opts)} :
          /\ doc' = r.doc
          /\ input' = r.input
          /\ opts' = r.opts
          /\ notified' = r.calls
    /\ pc' = "safe"
    /\ UNCHANGED <<out, doc2>>

\* the Document of from() over a source that is no string: its private input
\* is "" and it is deferred
FromOutcome(r, tag) ==
    /\ doc' = IF r.raised THEN doc ELSE r.doc
    /\ pc' = IF r.raised THEN "raised" ELSE tag
    /\ notified' = r.calls
    /\ input' = <<>>
    /\ opts' = [opts EXCEPT !.defer = TRUE]
    /\ UNCHANGED <<out, doc2>>

\* doc = XMSDoc.from(entries, opts)
FromEntries ==
    /\ pc = "new"
    /\ \E source \in EntrySources, x \in FromExtras :
          FromOutcome(fromEntries(source, opts, x), "from_entries")

\* doc = XMSDoc.from(node, opts)
FromNode ==
    /\ pc = "new"
    /\ \E leaves \in NodeSources, x \in FromExtras :
          FromOutcome(fromNode(leaves, opts, x), "from_node")

\* doc = XMSDoc.from(documentLike, opts)
FromParsedLike ==
    /\ pc = "new"
    /\ \E source \in ParsedSources, x \in FromExtras :
          FromOutcome([NoPass EXCEPT !.doc = fromParsedLike(source, x)], "from_parsed")

\* doc = XMSDoc.from(entries, {...opts, version}), over the entry logs to
\* serialize
FromEntryLog ==
    /\ pc = "new"
    /\ \E source \in OutLogs, v \in OutVersions :
          FromOutcome(fromEntries(source, opts, OutExtras(v)), "from_entries")

\* doc = XMSDoc.from(other, opts), other being a Document made from an entry
\* log without limits
FromDocument ==
    /\ pc = "new"
    /\ \E source \in OutLogs, v \in OutVersions :
          \E other \in {fromEntries(source, [opts EXCEPT !.enforceLimits = FALSE],
                                    OutExtras(v)).doc} :
              FromOutcome([NoPass EXCEPT !.doc = fromParsedLike(other, OutExtras(v))],
                          "from_parsed")

\* the caller assigns some of the public fields
Change ==
    /\ pc \notin {"new", "raised", "changed"}
    /\ \E fields \in {DOMAIN Scribble} \cup {{f} : f \in DOMAIN Scribble} :
          doc' = [f \in DOMAIN doc |-> IF f \in fields THEN Scribble[f] ELSE doc[f]]
    /\ pc' = "changed"
    /\ UNCHANGED <<input, opts, out, doc2, notified>>

\* doc.parse() on an existing Document, after a change of its fields or
\* not; when the callback raises the Document is left as the pass left it
Reparse ==
    /\ pc \notin {"new", "raised"}
    /\ \E r \in {parsePass(input, opts)} :
          /\ doc' = Settle(Reset(doc), r.doc)
          /\ pc' = IF r.raised THEN "parse_raised"
                   ELSE IF pc = "changed" THEN "rerun_changed" ELSE "rerun"
          /\ notified' = r.calls
    /\ UNCHANGED <<input, opts, out, doc2>>

NextLife ==
    \/ New \/ Parse \/ SafeParse
    \/ FromEntries \/ FromNode \/ FromParsedLike
    \/ Change \/ Reparse

NextOut == FromEntryLog \/ FromDocument \/ ToXMS \/ ParseOut

Spec == Init /\ [][Next]_vars

SpecLimits == InitLimits /\ [][Next]_vars

SpecAll == (Init \/ InitLimits) /\ [][Next]_vars

SpecNest == InitNest /\ [][Next]_vars

SpecProto == InitProto /\ [][Next]_vars

SpecCoerce == InitCoerce /\ [][Next]_vars

SpecOut == InitOut /\ [][NextOut]_vars

SpecLife == InitLife /\ [][NextLife]_vars

-----------------------------------------------------------------------------
(* Reading the input the way the format description does                   *)

\* whether parse() handed the input to the strict tokenizer, the text it
\* handed over, and whether that tokenizer failed on it
StrictChosen == VersionMatch(input).matched

StrictBody == SliceFrom(input, VersionMatch(input).len + 1)

StrictFailed == StrictChosen /\ ~parseXMSCore(StrictBody, opts, <<>>, <<>>).ok

\* The scan of section 4.2 of the format description: '"' toggles quoting
\* and a backslash escapes the next character inside quoting only.  The
\* result is the positions of c outside quoting and the final quoting state.
RECURSIVE QuoteScan(_, _, _, _, _, _)
QuoteScan(s, c, i, inQuote, esc, found) ==
    IF i > Len(s) THEN [inQuote |-> inQuote, found |-> found]
    ELSE IF esc THEN QuoteScan(s, c, i + 1, inQuote, FALSE, found)
    ELSE IF inQuote /\ s[i] = BACKSLASH THEN QuoteScan(s, c, i + 1, inQuote, TRUE, found)
    ELSE IF s[i] = QUOTE THEN QuoteScan(s, c, i + 1, ~inQuote, FALSE, found)
    ELSE IF s[i] = c /\ ~inQuote THEN QuoteScan(s, c, i + 1, inQuote, FALSE, found \cup {i})
    ELSE QuoteScan(s, c, i + 1, inQuote, FALSE, found)

Unquoted(s, c) == QuoteScan(s, c, 1, FALSE, FALSE, {}).found

EndsInsideQuotes(s) == QuoteScan(s, SEMI, 1, FALSE, FALSE, {}).inQuote

\* the pieces of s between the positions in cuts, in order
PiecesAt(s, cuts) ==
    LET all == {0} \cup cuts \cup {Len(s) + 1}
        nth(k) == CHOOSE i \in all : Cardinality({j \in all : j < i}) = k
    IN  [k \in 1..(Cardinality(all) - 1) |-> SubSeq(s, nth(k - 1) + 1, nth(k) - 1)]

NonBlank(t) == trim(t) # <<>>

\* the non-empty tokens of s: between the unquoted ";" (strict encoding),
\* between all ";" (legacy encoding)
QuoteAwareTokens(s) == SelectSeq(PiecesAt(s, Unquoted(s, SEMI)), NonBlank)

PlainTokens(s) == SelectSeq(split(s, SEMI), NonBlank)

\* the value half of a token under the quote-aware reading, <<>> when the
\* token has no unquoted "="
ValueHalf(t) ==
    LET eqs == Unquoted(t, EQ)
    IN  IF eqs = {} THEN <<>> ELSE trim(SliceFrom(t, SetMin(eqs) + 1))

ImproperlyClosed(t) ==
    LET v == ValueHalf(t)
    IN  startsWith(v, QUOTE) /\ (Len(v) < 2 \/ ~endsWith(v, QUOTE))

HasBadQuote(s) ==
    \/ EndsInsideQuotes(s)
    \/ \E k \in 1..Len(QuoteAwareTokens(s)) : ImproperlyClosed(QuoteAwareTokens(s)[k])

\* the last entry named name
LastIndex(entries, name) == SetMax({k \in 1..Len(entries) : entries[k].name = name})

Names(entries) == {entries[k].name : k \in 1..Len(entries)}

\* the flat value set of a Document: each entry name with the coerced value
\* of its last occurrence
FlatValues(d) ==
    {<<n, coerceValue(d.entries[LastIndex(d.entries, n)].value, opts)>> : n \in Names(d.entries)}

-----------------------------------------------------------------------------
(* C1 *)

\* C1 (as claimed, at the default options): an input with a version prefix
\* whose body has an unbalanced quote or an improperly closed quoted value
\* parses to isFallback = true, version = 0 and a non-empty entry log.
C1_BadQuoteFallsBack ==
    (pc # "new" /\ opts = DEFAULT_OPTIONS /\ isProbablyXMS(input) /\ HasBadQuote(StrictBody))
        => (doc.isFallback /\ doc.version = 0 /\ Len(doc.entries) > 0)

-----------------------------------------------------------------------------
(* C2 *)

\* C2 (as claimed): every input that does not begin with "xms/", digits and
\* ";" goes to the legacy tokenizer and yields version = 0, isFallback =
\* true; isProbablyXMS tells exactly the inputs that go to the strict one.
C2_DispatchAgreesWithProbe ==
    pc # "new" =>
        /\ StrictChosen <=> isProbablyXMS(input)
        /\ ~isProbablyXMS(input) => (doc.version = 0 /\ doc.isFallback)

-----------------------------------------------------------------------------
(* C7 *)

\* C7 (as claimed): in the strict tokenizer every ";" outside quotes ends
\* the token, a backslash being an escape inside quotes only; so a strict
\* parse that keeps every key has one entry per quote-aware token.
C7_UnquotedSemicolonEndsToken ==
    (pc # "new" /\ isProbablyXMS(input) /\ ~doc.isFallback /\ opts.keepInvalidKeys)
        => Len(doc.entries) = Len(QuoteAwareTokens(StrictBody))

-----------------------------------------------------------------------------
(* C6 *)

WellFormedStrict ==
    /\ isProbablyXMS(input)
    /\ ~doc.isFallback
    /\ doc.version >= 1
    /\ \A k \in 1..Len(doc.entries) : KEY_PATTERN(doc.entries[k].name)

\* C6 (as claimed): for well-formed strict input, parsing the output of
\* toXMS() gives the same flat value set: the same entry names, each with
\* the same resolved value, null and empty-string values included.
C6_RoundTrip ==
    (pc = "reparsed" /\ WellFormedStrict) => FlatValues(doc2) = FlatValues(doc)

-----------------------------------------------------------------------------
(* C4 *)

\* the key of a token whose first "=" is its separator
TokenKey(t) ==
    LET eq == indexOf(trim(t), EQ)
    IN  toLowerCase(IF eq = 0 THEN trim(t) ELSE trim(SubSeq(trim(t), 1, eq - 1)))

\* what follows the first "=" of a token, trimmed
TokenRight(t) == trim(SliceFrom(trim(t), indexOf(trim(t), EQ) + 1))

IsBare(t) == indexOf(t, EQ) = 0

KeptToken(t) == opts.keepInvalidKeys \/ KEY_PATTERN(TokenKey(t))

\* no backslash, and quotes only as adjacent pairs: no ";" or "=" is quoted,
\* so the tokens are the pieces between the ";"
QuotesOnlyAsEmptyPairs(s) ==
    LET qs == {i \in 1..Len(s) : s[i] = QUOTE}
    IN  /\ \A i \in 1..Len(s) : s[i] # BACKSLASH
        /\ Cardinality(qs) % 2 = 0
        /\ \A i \in qs : Cardinality({j \in qs : j < i}) % 2 = 0 => (i + 1) \in qs

LegacyTokenized == doc.isFallback /\ (~StrictChosen \/ opts.reparseOnFallback)

StrictTokenizedPlainly ==
    StrictChosen /\ ~doc.isFallback /\ QuotesOnlyAsEmptyPairs(StrictBody)

C4_Tokens ==
    IF LegacyTokenized THEN SelectSeq(PlainTokens(input), KeptToken)
    ELSE SelectSeq(PlainTokens(StrictBody), KeptToken)

\* C4: a token with no "=" yields null under the strict tokenizer and ""
\* under the legacy tokenizer; "key=" yields null under both; under the
\* strict tokenizer key="" yields "", not null.
C4_BareTokenValues ==
    (pc # "new" /\ (LegacyTokenized \/ StrictTokenizedPlainly)) =>
        /\ Len(doc.entries) = Len(C4_Tokens)
        /\ \A k \in 1..Len(C4_Tokens) :
              LET t == C4_Tokens[k]
                  e == doc.entries[k]
              IN  /\ e.name = TokenKey(t)
                  /\ (IsBare(t) /\ LegacyTokenized) => e.value = StrRaw(<<>>)
                  /\ (IsBare(t) /\ ~LegacyTokenized) => e.value = NullRaw
                  /\ (~IsBare(t) /\ TokenRight(t) = <<>>) => e.value = NullRaw
                  /\ (~IsBare(t) /\ ~LegacyTokenized /\ TokenRight(t) = <<QUOTE, QUOTE>>)
                        => e.value = StrRaw(<<>>)

\* a strict parse of a bare token and of an empty right-hand side
C4_Witness ==
    /\ pc = "parsed"
    /\ isProbablyXMS(input)
    /\ StrictTokenizedPlainly
    /\ Len(doc.entries) = 2
    /\ IsBare(C4_Tokens[1]) /\ doc.entries[1].value = NullRaw
    /\ ~IsBare(C4_Tokens[2]) /\ doc.entries[2].value = NullRaw

-----------------------------------------------------------------------------
(* C3 *)

LegacyOutput == parseCommonMeta(input, opts, <<>>, <<>>).out

\* an entry as the Limit Enforcer leaves it
CutToLimit(e) ==
    IF opts.enforceLimits /\ ~e.value.isNull /\ LimitOf(e.name) # 0
       /\ Len(e.value.s) > LimitOf(e.name)
    THEN RawEntry(e.name, StrRaw(SubSeq(e.value.s, 1, LimitOf(e.name))))
    ELSE e

CountKind(warnings, kind) == Cardinality({k \in 1..Len(warnings) : warnings[k].kind = kind})

\* C3 (as claimed): after a strict failure the entry log is exactly the
\* legacy tokenizer's output over the whole input when reparseOnFallback is
\* on, and the entry log and the value tree are empty when it is off.
C3_FallbackIsLegacyOutput ==
    (pc # "new" /\ StrictFailed) =>
        IF opts.reparseOnFallback
        THEN doc.entries = LegacyOutput
        ELSE doc.entries = <<>> /\ doc.data = EmptyNode

\* C3 (amended): after a strict failure with reparseOnFallback on, the
\* entry log is the legacy tokenizer's output over the whole input with each
\* value cut to its key's limit (when limits are enforced); with invalid
\* keys kept, a "xms/<digits>;" prefix is its first entry, named
\* "xms/<digits>" with value ""; the legacy pass ran once (one invalid-key
\* warning per entry with an invalid name); with reparseOnFallback off the
\* entry log and the value tree are empty.
C3_FallbackIsLimitedLegacyOutput ==
    (pc # "new" /\ StrictFailed) =>
        /\ doc.isFallback /\ doc.version = 0
        /\ opts.reparseOnFallback =>
              /\ doc.entries = [k \in 1..Len(LegacyOutput) |-> CutToLimit(LegacyOutput[k])]
              /\ (opts.keepInvalidKeys /\ isProbablyXMS(input)) =>
                    doc.entries[1] =
                        RawEntry(SubSeq(input, 1, VersionMatch(input).len), StrRaw(<<>>))
              /\ CountKind(doc.warnings, "invalid_key_kept")
                    = Cardinality({k \in 1..Len(doc.entries) :
                                      ~KEY_PATTERN(doc.entries[k].name)})
        /\ ~opts.reparseOnFallback => (doc.entries = <<>> /\ doc.data = EmptyNode)

\* a strict failure recovered by the legacy pass, which kept the prefix as
\* an entry and had a value cut to its limit
C3_Witness ==
    /\ pc = "parsed"
    /\ StrictFailed /\ opts.reparseOnFallback /\ opts.keepInvalidKeys
    /\ Len(doc.entries) = 3
    /\ doc.entries[1] = RawEntry(V_1, StrRaw(<<>>))
    /\ doc.entries # LegacyOutput

-----------------------------------------------------------------------------
(* C8 *)

\* the entries as the tokenizers produced them, before ingest
Tokenized == Dispatch(input, opts).entries

OverLimit(e) == ~e.value.isNull /\ LimitOf(e.name) # 0 /\ Len(e.value.s) > LimitOf(e.name)

\* C8: with enforceLimits on, in either mode, a "username" value has at most
\* 16 characters and a "message", "error" or "error.message" value at most
\* 255, in the entry log and in the value tree; a longer value is replaced by
\* its prefix of exactly the limit length, cut before coercion, with exactly
\* one warning per truncated entry; every other entry keeps its tokenized
\* value.
C8_ValuesWithinLimits ==
    (pc # "new" /\ opts.enforceLimits) =>
        /\ Len(doc.entries) = Len(Tokenized)
        /\ \A k \in 1..Len(doc.entries) :
              LET e == doc.entries[k]
                  t == Tokenized[k]
              IN  /\ e.name = t.name
                  /\ (e.name = K_USERNAME /\ ~e.value.isNull)
                        => Len(e.value.s) <= USERNAME_LIMIT
                  /\ (e.name \in {K_MESSAGE, K_ERROR, K_ERROR_MESSAGE} /\ ~e.value.isNull)
                        => Len(e.value.s) <= MESSAGE_LIMIT
                  /\ OverLimit(t) => /\ Len(e.value.s) = LimitOf(e.name)
                                     /\ e.value.s = SubSeq(t.value.s, 1, Len(e.value.s))
                  /\ ~OverLimit(t) => e.value = t.value
        /\ CountKind(doc.warnings, "truncated")
              = Cardinality({k \in 1..Len(Tokenized) : OverLimit(Tokenized[k])})
        /\ \A n \in Names(doc.entries) :
              get(doc.data, n) = coerceValue(doc.entries[LastIndex(doc.entries, n)].value, opts)

\* a strict and a legacy parse that cut a "username" value to 16 characters
\* and left a longer value of another key alone
C8_Witness ==
    /\ pc = "parsed"
    /\ opts.enforceLimits
    /\ \E k \in 1..Len(doc.entries) :
          /\ doc.entries[k].name = K_USERNAME
          /\ OverLimit(Tokenized[k])
          /\ Len(doc.entries[k].value.s) = USERNAME_LIMIT
          /\ get(doc.data, K_USERNAME) = StrVal(doc.entries[k].value.s)
    /\ \E k \in 1..Len(doc.entries) :
          /\ doc.entries[k].name = K_A
          /\ ~doc.entries[k].value.isNull
          /\ Len(doc.entries[k].value.s) > USERNAME_LIMIT

-----------------------------------------------------------------------------
(* The ingest of one entry *)

\* the entries, value tree and warnings after the first n iterations of
\* ingest; after the last iteration they are the Document's
IngestStart(d) == [entries |-> d.entries, data |-> EmptyNode, warnings |-> d.warnings]

IngestState(n) ==
    IF n = Len(doc.entries)
    THEN [entries |-> doc.entries, data |-> doc.data, warnings |-> doc.warnings]
    ELSE IngestUpTo(IngestStart(Dispatch(input, opts)), n, opts)

KeyOf(k) == doc.entries[k].name

Segs(k) == split(KeyOf(k), DOT)

PathTo(k, i) == SubSeq(Segs(k), 1, i)

Coerced(k) == coerceValue(doc.entries[k].value, opts)

Dotted(k) == Len(Segs(k)) >= 2

HasEmptySegment(k) == \E i \in 1..Len(Segs(k)) : Segs(k)[i] = <<>>

\* Below, b and a are the states before and after the iteration for entry k.

\* the intermediate segments of key k that hold a non-object value before it
\* is ingested
Conflicts(b, k) ==
    {i \in 1..(Len(Segs(k)) - 1) :
        GetProp(b.data, PathTo(k, i)).t \notin {"object", "undefined"}}

\* the value tree before entry k with only its flat key stored (if enabled)
FlatStored(b, k) ==
    IF opts.createFlatKeys THEN SetProp(b.data, <<KeyOf(k)>>, Coerced(k)) ELSE b.data

\* the nested path of key k exists: an object at every intermediate segment
\* and the entry's value at the last
Materialized(a, k) ==
    /\ \A i \in 1..(Len(Segs(k)) - 1) : GetProp(a.data, PathTo(k, i)) = ObjVal
    /\ GetProp(a.data, Segs(k)) = Coerced(k)
    /\ get(a.data, KeyOf(k)) = Coerced(k)

Added(b, a, kind) == CountKind(a.warnings, kind) - CountKind(b.warnings, kind)

\* the default policy: nothing but the flat key changes and one skip-nested
\* warning is recorded
SkippedNested(b, a, k) ==
    LET c == SetMin(Conflicts(b, k))
    IN  /\ GetProp(a.data, PathTo(k, c)) = GetProp(b.data, PathTo(k, c))
        /\ Added(b, a, "skip_nested") = 1
        /\ a.warnings = Append(b.warnings, Warning("skip_nested", KeyOf(k), Segs(k)[c], 0))
        /\ a.data = FlatStored(b, k)

\* the override policy: the conflicting segment becomes a fresh object that
\* holds nothing but the path of key k
ReplacedByObject(b, a, k) ==
    LET c == SetMin(Conflicts(b, k))
    IN  /\ Materialized(a, k)
        /\ Added(b, a, "skip_nested") = 0
        /\ {q \in DOMAIN a.data : IsPrefix(PathTo(k, c), q)}
              = {PathTo(k, i) : i \in c..Len(Segs(k))}

\* more segments than the depth limit: one depth warning, no object created,
\* only the flat key stored (if enabled)
KeptFlatOnly(b, a, k) ==
    /\ Added(b, a, "depth") = 1
    /\ a.data = FlatStored(b, k)
    /\ Segs(k) \notin DOMAIN a.data
    /\ \A i \in 1..Len(Segs(k)) : PathTo(k, i) \in DOMAIN a.data <=> PathTo(k, i) \in DOMAIN b.data
    /\ opts.createFlatKeys => GetProp(a.data, <<KeyOf(k)>>) = Coerced(k)

-----------------------------------------------------------------------------
(* C9 *)

\* C9 (as claimed, nested keys enabled and the depth limit at its default):
\* when an intermediate segment of an ingested dotted key holds a non-object
\* value, the default policy leaves it unchanged, records exactly one
\* skip-nested warning and changes nothing but the flat key; with
\* overwriteScalarsForNested the segment becomes a fresh object and the value
\* is reachable at the dotted path.
C9_ScalarConflict ==
    (pc # "new" /\ opts.createNestedKeys
       /\ opts.maxNestingDepth = DEFAULT_OPTIONS.maxNestingDepth) =>
        \A k \in 1..Len(doc.entries) :
            LET b == IngestState(k - 1)
                a == IngestState(k)
            IN  (Dotted(k) /\ Conflicts(b, k) # {}) =>
                    IF opts.overwriteScalarsForNested THEN ReplacedByObject(b, a, k)
                    ELSE SkippedNested(b, a, k)

\* C9 (amended): the same, for a key that has no empty segment and at most
\* maxNestingDepth segments, nested keys being enabled.
C9_ScalarConflictWithinDepth ==
    (pc # "new" /\ opts.createNestedKeys) =>
        \A k \in 1..Len(doc.entries) :
            LET b == IngestState(k - 1)
                a == IngestState(k)
            IN  (Dotted(k) /\ Conflicts(b, k) # {} /\ ~HasEmptySegment(k)
                   /\ Len(Segs(k)) <= opts.maxNestingDepth) =>
                    IF opts.overwriteScalarsForNested THEN ReplacedByObject(b, a, k)
                    ELSE SkippedNested(b, a, k)

\* a dotted key ingested under the default policy after its first segment
\* was given a scalar, with flat keys enabled
C9_Witness ==
    /\ pc = "parsed"
    /\ opts.createNestedKeys /\ opts.createFlatKeys /\ ~opts.overwriteScalarsForNested
    /\ Len(doc.entries) = 2
    /\ Dotted(2) /\ Conflicts(IngestState(1), 2) # {} /\ ~HasEmptySegment(2)
    /\ Len(Segs(2)) <= opts.maxNestingDepth
    /\ CountKind(doc.warnings, "skip_nested") = 1
    /\ GetProp(doc.data, <<KeyOf(2)>>) = Coerced(2)

-----------------------------------------------------------------------------
(* C10 *)

-----------------------------------------------------------------------------
(* C5 *)

\* the key of a token under the quote-aware reading of the strict encoding
QuoteAwareKey(t) ==
    LET eqs == Unquoted(trim(t), EQ)
    IN  toLowerCase(IF eqs = {} THEN trim(t) ELSE trim(SubSeq(trim(t), 1, SetMin(eqs) - 1)))

\* the non-empty tokens of the input and their keys, in the encoding the
\* Document was tokenized in
InputTokens ==
    IF LegacyTokenized THEN PlainTokens(input) ELSE QuoteAwareTokens(StrictBody)

InputKey(t) == IF LegacyTokenized THEN TokenKey(t) ELSE QuoteAwareKey(t)

\* no other entry name lies on the path of name n, nor n on the path of another
NoPathConflict(d, n) ==
    \A m \in Names(d.entries) \ {n} :
        /\ ~IsPrefix(split(m, DOT), split(n, DOT))
        /\ ~IsPrefix(split(n, DOT), split(m, DOT))

\* C5 (as claimed, the entry log): with default options, in either mode, the
\* entry log has exactly one entry per non-empty token, in input order,
\* duplicates included.
C5_EntryPerToken ==
    (pc # "new" /\ opts = DEFAULT_OPTIONS /\ (LegacyTokenized \/ isProbablyXMS(input))) =>
        /\ Len(doc.entries) = Len(InputTokens)
        /\ \A k \in 1..Len(InputTokens) : doc.entries[k].name = InputKey(InputTokens[k])

\* C5 (as claimed, the lookup): with default options, get(key) is the coerced
\* value of the last occurrence of a key that no other key conflicts with.
C5_LastOccurrenceWins ==
    (pc # "new" /\ opts = DEFAULT_OPTIONS) =>
        \A n \in Names(doc.entries) :
            NoPathConflict(doc, n) =>
                get(doc.data, n) = coerceValue(doc.entries[LastIndex(doc.entries, n)].value, opts)

-----------------------------------------------------------------------------
(* C11 *)

\* the coerced value of the last entry named n
LastCoerced(d, n) == coerceValue(d.entries[LastIndex(d.entries, n)].value, opts)

\* an entry after the last one named n whose dotted key walks through n as
\* its first segment, so that the override policy replaces a scalar there
ReplacedLater(d, n) ==
    /\ opts.createNestedKeys /\ opts.overwriteScalarsForNested
    /\ \E k \in (LastIndex(d.entries, n) + 1)..Len(d.entries) :
          LET segs == split(d.entries[k].name, DOT)
          IN  /\ Len(segs) >= 2 /\ Len(segs) <= opts.maxNestingDepth
              /\ \A i \in 1..Len(segs) : segs[i] # <<>>
              /\ segs[1] = n

-----------------------------------------------------------------------------
(* C12 *)

\* the values of CoerceValues that match an integer or decimal with optional
\* exponent, with the number each denotes as mantissa * 10^exponent
NumeralValue(raw) ==
    CASE    raw = <<"1">> -> NumVal(1, 0)
    [] raw = <<"0">> -> NumVal(0, 0)
    [] raw = <<"1", "0">> -> NumVal(1, 1)
    [] raw = <<"0", "1">> -> NumVal(1, 0)
    [] raw = <<"1", ".", "5">> -> NumVal(15, -1)
    [] raw = <<"-", "3">> -> NumVal(-3, 0)
    [] raw = <<"1", "e", "2">> -> NumVal(1, 2)
    [] raw = <<"1", "E", "-", "1">> -> NumVal(1, -1)
    [] raw = <<"2", "e", "+", "1">> -> NumVal(2, 1)
    [] OTHER -> Undefined

\* the boolean the literals give a lower-cased value: the built-in words
\* first, then the first custom literal equal to it ignoring case
BooleanFor(lower, lits) ==
    IF lower = T_TRUE THEN BoolVal(TRUE)
    ELSE IF lower = T_FALSE THEN BoolVal(FALSE)
    ELSE LET hits == {i \in 1..Len(lits) : toLowerCase(lits[i].lit) = lower}
         IN  IF hits = {} THEN Undefined ELSE BoolVal(lits[SetMin(hits)].val)

\* what the coercion rules give a raw entry value under the options
ExpectedValue(raw) ==
    IF raw.isNull THEN NullVal
    ELSE IF opts.coerceBooleans
            /\ BooleanFor(toLowerCase(raw.s), opts.customBooleanLiterals) # Undefined
    THEN BooleanFor(toLowerCase(raw.s), opts.customBooleanLiterals)
    ELSE IF opts.coerceNumbers /\ opts.numberPredicate # "reject"
            /\ NumeralValue(raw.s) # Undefined
    THEN NumeralValue(raw.s)
    ELSE StrVal(raw.s)

-----------------------------------------------------------------------------
(* C14: the serialized form                                                *)

\* a value with every backslash and double quote backslash-escaped
Escaped(v) ==
    Concat([i \in 1..Len(v) |->
              IF v[i] \in {QUOTE, BACKSLASH} THEN <<BACKSLASH, v[i]>> ELSE <<v[i]>>])

\* the characters that force quoting
MustQuote(v) ==
    \E i \in 1..Len(v) : v[i] \in {SPACE, TAB, SEMI, EQ, QUOTE, BACKSLASH}

ExpectedToken(e) ==
    IF e.value.isNull THEN e.name
    ELSE IF Len(e.value.s) = 0 THEN e.name \o <<EQ>>
    ELSE IF MustQuote(e.value.s)
    THEN e.name \o <<EQ, QUOTE>> \o Escaped(e.value.s) \o <<QUOTE>>
    ELSE e.name \o <<EQ>> \o e.value.s

\* the entries with a key of the key pattern, in entry-log order
Emitted(entries) == SelectSeq(entries, LAMBDA e : KEY_PATTERN(e.name))

ExpectedTokens(entries) ==
    [k \in 1..Len(Emitted(entries)) |-> ExpectedToken(Emitted(entries)[k])]

VersionPrefix(d) ==
    IF d.version = 0 THEN <<>> ELSE XMS_SLASH \o NatToDigits(d.version) \o <<SEMI>>

-----------------------------------------------------------------------------
(* C15: tokens with an invalid key                                         *)

\* the positions of the tokens whose normalized key fails the key pattern
InvalidKeyTokens ==
    {k \in 1..Len(InputTokens) : ~KEY_PATTERN(InputKey(InputTokens[k]))}

InvalidKeyWarnings(warnings) ==
    CountKind(warnings, "invalid_key_accepted") + CountKind(warnings, "invalid_key_kept")

InvalidKeyEntries(entries) == {k \in 1..Len(entries) : ~KEY_PATTERN(entries[k].name)}

\* the entries follow keepInvalidKeys: kept as they are, or absent
InvalidKeysFollowOption ==
    IF opts.keepInvalidKeys
    THEN Cardinality(InvalidKeyEntries(doc.entries)) = Cardinality(InvalidKeyTokens)
    ELSE /\ InvalidKeyEntries(doc.entries) = {}
         /\ \A k \in InvalidKeyTokens : <<InputKey(InputTokens[k])>> \notin DOMAIN doc.data

\* C15: in both tokenizers every token whose normalized key fails the key
\* pattern produces a warning in the Document's warnings, whether the entry
\* is kept (keepInvalidKeys true) or dropped (keepInvalidKeys false).
C15_InvalidKeyWarns ==
    (pc # "new" /\ (LegacyTokenized \/ StrictTokenizedPlainly)) =>
        /\ InvalidKeyWarnings(doc.warnings) >= Cardinality(InvalidKeyTokens)
        /\ InvalidKeysFollowOption

\* C15, kept entries only: with keepInvalidKeys true each such token has its
\* warning and its entry
C15_KeptKeyWarns ==
    (pc # "new" /\ opts.keepInvalidKeys /\ (LegacyTokenized \/ StrictTokenizedPlainly)) =>
        /\ InvalidKeyWarnings(doc.warnings) >= Cardinality(InvalidKeyTokens)
        /\ InvalidKeysFollowOption

\* C15, dropped entries only: with keepInvalidKeys false the entries are
\* absent and no warning is recorded for them
C15_DroppedKeySilent ==
    (pc # "new" /\ ~opts.keepInvalidKeys /\ (LegacyTokenized \/ StrictTokenizedPlainly)) =>
        /\ InvalidKeyWarnings(doc.warnings) = 0
        /\ InvalidKeysFollowOption

-----------------------------------------------------------------------------
(* C20: the round trip of a legacy Document                                *)

\* C20: for every Document parsed from an unversioned input (version 0)
\* whose keys all match the key pattern, tokenizing the string returned by
\* toXMS() yields the same entry log: the same names and the same values in
\* the same order, null staying null and the empty string staying empty.
C20_LegacyRoundTrip ==
    (/\ pc = "reparsed"
     /\ ~StrictChosen
     /\ doc.version = 0
     /\ \A k \in 1..Len(doc.entries) : KEY_PATTERN(doc.entries[k].name)) =>
        doc2.entries = doc.entries

-----------------------------------------------------------------------------
(* C13: safeParse                                                          *)

\* parse raises on a string input: the callback raises at the first warning
\* of the ingest
ParseFails(inp, o) ==
    /\ o.onWarning = "throws"
    /\ \E k \in 1..Len(parse(inp, o).warnings) :
          parse(inp, o).warnings[k].kind \in {"truncated", "depth", "skip_nested"}

\* the Document a failure is converted into
IsDegraded(d) ==
    /\ d.version = 0 /\ d.isFallback
    /\ d.entries = <<>> /\ d.data = EmptyNode
    /\ d.errors # <<>>

\* C13: safeParse never raises, for any input (string or not) and any
\* configuration: every failure inside parsing is converted into a Document
\* with version 0, isFallback true, an empty entry log, an empty value tree
\* and a non-empty error list, and for a string input on which parse does
\* not fail the Document equals the one parse returns.
C13_SafeParseAsParse ==
    [][(pc = "new" /\ pc' = "safe") =>
          IF IsString(input) /\ ~ParseFails(input, opts)
          THEN doc' = parse(input, opts)
          ELSE IsDegraded(doc')]_vars

\* C13 for the configurations that do not defer parsing
C13_SafeParseUndeferred ==
    [][(pc = "new" /\ pc' = "safe" /\ ~opts.defer) =>
          IF IsString(input) /\ ~ParseFails(input, opts)
          THEN doc' = parse(input, opts)
          ELSE IsDegraded(doc')]_vars

\* C13 for the configurations that defer parsing: the Document of a string
\* input has not been parsed
C13_SafeParseDeferred ==
    [][(pc = "new" /\ pc' = "safe" /\ opts.defer) =>
          IF IsString(input) THEN doc' = NewDoc ELSE IsDegraded(doc')]_vars

-----------------------------------------------------------------------------
(* C16: isFallback and version                                             *)

\* the Document is as a construction path or a parse() call left it
Constructed == pc \in {"parsed", "constructed", "safe", "from_entries", "from_node",
                       "from_parsed", "rerun", "rerun_changed", "parse_raised"}

\* C16: in every Document reachable through any construction path (parse,
\* safeParse, explicit re-parse, from() over a string, an entry log, a value
\* tree or a document-like source, with any options), isFallback = true
\* implies version = 0.
C16_FallbackHasVersionZero ==
    Constructed => (doc.isFallback => doc.version = 0)

\* C16 for the paths that run parse(): the constructor, the static parse,
\* safeParse and the explicit re-parse
C16_ParsePathsVersionZero ==
    (pc \in {"parsed", "constructed", "safe", "rerun", "rerun_changed", "parse_raised"}) =>
        (doc.isFallback => doc.version = 0)

-----------------------------------------------------------------------------
(* C17: from() runs the ingest                                             *)

\* the value tree is what the ingest of the entry log gives under the
\* options, and with limits enforced every value is within its limit
TreeOfIngest(d, o) ==
    /\ d.data = ingest(d.entries, EmptyNode, <<>>, o).data
    /\ o.enforceLimits =>
          \A k \in 1..Len(d.entries) :
              (LimitOf(d.entries[k].name) # 0 /\ ~d.entries[k].value.isNull) =>
                  Len(d.entries[k].value.s) <= LimitOf(d.entries[k].name)

\* C17: every alternate construction path of from() (entry log, value tree,
\* document-like source) runs the ingest (limits, then coercion, then nested
\* assignment) over the entries instead of copying the source's tree: the
\* value tree is what ingesting the resulting entry log under the given
\* options produces, and every entry with a limited key is within its limit.
C17_FromRunsIngest ==
    (pc \in {"from_entries", "from_node", "from_parsed"}) => TreeOfIngest(doc, opts)

\* C17 for the entry-log and value-tree sources
C17_FromEntriesOrNodeRunsIngest ==
    (pc \in {"from_entries", "from_node"}) => TreeOfIngest(doc, opts)

-----------------------------------------------------------------------------
(* C18: the explicit re-parse                                              *)

\* C18: after any sequence of operations on a Document (deferred
\* construction, from(), earlier parse() calls, direct changes of its
\* fields), parse() leaves version, isFallback, entries, data, warnings and
\* errors equal to those of a fresh parse of the Document's raw input under
\* its options: nothing of the prior state survives, warnings and errors do
\* not accumulate.
C18_ReparseReplacesAll ==
    (pc \in {"rerun", "rerun_changed"}) => doc = parse(input, opts)

\* a Document with changed fields, parsed again by a pass without warnings
\* or errors
C18_Witness ==
    /\ pc = "rerun_changed"
    /\ doc.entries # <<>>
    /\ doc.warnings = <<>> /\ doc.errors = <<>>
    /\ doc = parse(input, opts)

-----------------------------------------------------------------------------
(* C19: the onWarning callback                                             *)

\* the Document is as a parse pass with a recording callback left it
PassRecorded ==
    /\ pc \in {"parsed", "constructed", "safe", "rerun", "rerun_changed"}
    /\ opts.onWarning = "record"

IsIngestWarning(w) == w.kind \in {"truncated", "depth", "skip_nested"}

\* C19: during one parse pass the onWarning callback is invoked exactly once
\* for each warning that ends up in the Document's warnings, in the same
\* order: for the invalid-key warnings of either tokenizer as well as for
\* the truncation, depth and scalar-conflict warnings of the ingest.
C19_CallbackPerWarning ==
    PassRecorded => notified = doc.warnings

\* C19 for the warnings of the ingest alone
C19_CallbackPerIngestWarning ==
    PassRecorded => notified = SelectSeq(doc.warnings, IsIngestWarning)

-----------------------------------------------------------------------------
(* C21: enforceLimits false                                                *)

\* no value of the entry log was cut and no truncation warning recorded
NothingTruncated ==
    /\ doc.entries = Dispatch(input, opts).entries
    /\ CountKind(doc.warnings, "truncated") = 0

\* C21: when enforceLimits is false no limits are enforced: no value is
\* truncated and maxNestingDepth is ignored, so a dotted key with more
\* segments than maxNestingDepth is still materialized as a nested path and
\* no depth warning is recorded.
C21_NoLimitsEnforced ==
    (pc = "parsed" /\ ~opts.enforceLimits) =>
        /\ NothingTruncated
        /\ CountKind(doc.warnings, "depth") = 0
        /\ \A k \in 1..Len(doc.entries) :
              LET b == IngestState(k - 1)
                  a == IngestState(k)
              IN  (Dotted(k) /\ ~HasEmptySegment(k) /\ Conflicts(b, k) = {}) =>
                      Materialized(a, k)

\* C21 for the length limits alone
C21_NoTruncation ==
    (pc = "parsed" /\ ~opts.enforceLimits) => NothingTruncated

\* C21 for the depth limit alone: it is applied as with enforceLimits true
C21_DepthLimitStillApplied ==
    (pc = "parsed" /\ ~opts.enforceLimits /\ opts.createNestedKeys) =>
        \A k \in 1..Len(doc.entries) :
            LET b == IngestState(k - 1)
                a == IngestState(k)
            IN  (Dotted(k) /\ ~HasEmptySegment(k) /\ Conflicts(b, k) = {}
                           /\ Len(Segs(k)) > opts.maxNestingDepth) =>
                    KeptFlatOnly(b, a, k)

-----------------------------------------------------------------------------
(* C22: fatal failures of the strict tokenizer                             *)

\* the number of backslashes that end t
RECURSIVE TrailingBackslashes(_)
TrailingBackslashes(t) ==
    IF t = <<>> \/ t[Len(t)] # BACKSLASH THEN 0
    ELSE 1 + TrailingBackslashes(SubSeq(t, 1, Len(t) - 1))

\* t ends on a backslash that is followed by no character
DanglingEscape(t) == TrailingBackslashes(t) % 2 = 1

\* the value of token t begins with a double quote and does not end with a
\* matching unescaped one
NotClosedByUnescapedQuote(t) ==
    LET v == ValueHalf(t)
    IN  /\ startsWith(v, QUOTE)
        /\ \/ Len(v) < 2
           \/ ~endsWith(v, QUOTE)
           \/ DanglingEscape(SubSeq(v, 2, Len(v) - 1))

\* a token of the body s is one of those the strict tokenizer has to fail on
HasFatalToken(s) ==
    \/ EndsInsideQuotes(s)
    \/ \E k \in 1..Len(QuoteAwareTokens(s)) :
          \/ NotClosedByUnescapedQuote(QuoteAwareTokens(s)[k])
          \/ DanglingEscape(trim(QuoteAwareTokens(s)[k]))

\* the strict pass failed and the dispatcher recovered: no entry of the
\* strict tokenizer is in the Document
FailedFatally ==
    /\ StrictFailed
    /\ doc.isFallback /\ doc.version = 0
    /\ doc.errors # <<>>
    /\ ~opts.reparseOnFallback => doc.entries = <<>>

\* C22: in the strict tokenizer a token whose scan ends inside quotes, or
\* whose value begins with a double quote but does not end with a matching
\* unescaped one, or that ends on a dangling escape (a backslash followed by
\* no character, in a quoted or an unquoted value) makes tokenizing fail
\* fatally and triggers the recovery of the dispatcher; the strict tokenizer
\* produces no entry for such a token.
C22_FatalTokenFails ==
    (pc # "new" /\ StrictChosen /\ HasFatalToken(StrictBody)) => FailedFatally

\* C22 for the bodies without a backslash outside quotes
C22_FatalQuotedTokenFails ==
    (/\ pc # "new" /\ StrictChosen
     /\ Unquoted(StrictBody, BACKSLASH) = {}
     /\ HasFatalToken(StrictBody)) => FailedFatally

-----------------------------------------------------------------------------
(* C23: top-level values of an unversioned parse                           *)

ScalarTypes == {"undefined", "null", "string", "number", "boolean"}

\* doc.data[e.name] for the k-th entry of the log: the property of the root
\* whose name is the whole entry name
TopLevel(k) == GetProp(doc.data, <<doc.entries[k].name>>)

\* the input has no version prefix and was parsed with the default options
UnversionedDefault ==
    /\ pc \in {"parsed", "serialized", "reparsed"}
    /\ ~IsPrefix(XMS_SLASH, input)
    /\ opts = DEFAULT_OPTIONS

\* C23: for every unversioned input parsed with default options, including
\* inputs with dotted and duplicated keys in any order, the Document has
\* version 0 and isFallback true and, for every entry e of the entry log,
\* the top-level value data[e.name] is absent, null, or a string, number or
\* boolean, never an object.
C23_FallbackTopLevelScalars ==
    UnversionedDefault =>
        /\ doc.version = 0 /\ doc.isFallback
        /\ \A k \in 1..Len(doc.entries) : TopLevel(k).t \in ScalarTypes

\* C23 for the entries whose name is not that of the prototype accessor
C23_OrdinaryTopLevelScalars ==
    UnversionedDefault =>
        /\ doc.version = 0 /\ doc.isFallback
        /\ \A k \in 1..Len(doc.entries) :
              doc.entries[k].name # PROTO => TopLevel(k).t \in ScalarTypes

\* a.b=v;a=v was parsed: the object made for a.b was replaced by a scalar
C23_ReplacedObject ==
    /\ UnversionedDefault
    /\ Len(doc.entries) = 2
    /\ doc.entries[1].name = K_A_B /\ doc.entries[2].name = K_A
    /\ TopLevel(2).t = "string"

\* __proto__=v was parsed: the entry is in the log and data.__proto__ is the
\* prototype of the root
C23_PrototypeRead ==
    /\ UnversionedDefault
    /\ Len(doc.entries) = 1 /\ doc.entries[1].name = PROTO
    /\ TopLevel(1) = PrototypeVal

-----------------------------------------------------------------------------
(* C25: an object replaced by a later scalar                               *)

\* before entry k is ingested, the path of its full name holds an object
HoldsObject(b, k) == GetProp(b.data, Segs(k)) = ObjVal

\* the dotted names of the properties below the path of entry k
NamesBelow(b, k) ==
    {join(q, <<DOT>>) : q \in {r \in DOMAIN b.data :
                                  IsPrefix(Segs(k), r) /\ r # Segs(k)}}

\* entry k replaced the object by its value, without a warning
ReplacedObject(b, a, k) ==
    /\ GetProp(a.data, Segs(k)) = Coerced(k)
    /\ get(a.data, KeyOf(k)) = Coerced(k)
    /\ a.warnings = b.warnings

\* nothing that was below the path of entry k is found by get
UnreachableBelow(b, a, k) ==
    \A n \in NamesBelow(b, k) : get(a.data, n) = Undefined

\* entry k is a dotted key, within the depth limit, that meets a scalar
ScalarInTheWay(b, k) ==
    /\ opts.createNestedKeys
    /\ Dotted(k) /\ ~HasEmptySegment(k)
    /\ Len(Segs(k)) <= opts.maxNestingDepth
    /\ Conflicts(b, k) # {}

\* C25 (as claimed): under the default conflict policy, when the full name
\* of an entry resolves to a path that already holds an object created by
\* earlier dotted keys, the object is replaced by the new value, every value
\* previously reachable below that path becomes unreachable through get and
\* no warning is recorded; in the reverse order the scalar is kept and a
\* skip-nested warning is recorded.
C25_ObjectReplacedSilently ==
    (pc # "new" /\ ~opts.overwriteScalarsForNested) =>
        \A k \in 1..Len(doc.entries) :
            LET b == IngestState(k - 1)
                a == IngestState(k)
            IN  /\ HoldsObject(b, k) =>
                      ReplacedObject(b, a, k) /\ UnreachableBelow(b, a, k)
                /\ ScalarInTheWay(b, k) => SkippedNested(b, a, k)

\* C25 (amended): the same, the values below the path becoming unreachable
\* through get when flat keys are off; with flat keys on, get still falls
\* back to the flat key of a replaced value.
C25_ObjectReplacedFlatKeysOff ==
    (pc # "new" /\ ~opts.overwriteScalarsForNested) =>
        \A k \in 1..Len(doc.entries) :
            LET b == IngestState(k - 1)
                a == IngestState(k)
            IN  /\ HoldsObject(b, k) =>
                      /\ ReplacedObject(b, a, k)
                      /\ ~opts.createFlatKeys => UnreachableBelow(b, a, k)
                      /\ opts.createFlatKeys =>
                            \A n \in NamesBelow(b, k) :
                                get(a.data, n) = GetProp(b.data, <<n>>)
                /\ ScalarInTheWay(b, k) => SkippedNested(b, a, k)

\* a.b=v;a=w was parsed under the default policy with flat keys off: a is
\* the scalar, a.b is not found and there is no warning
C25_Witness ==
    /\ pc = "parsed"
    /\ ~opts.overwriteScalarsForNested /\ opts.createNestedKeys /\ ~opts.createFlatKeys
    /\ Len(doc.entries) = 2
    /\ KeyOf(1) = K_A_B /\ KeyOf(2) = K_A
    /\ HoldsObject(IngestState(1), 2)
    /\ get(doc.data, K_A) = Coerced(2)
    /\ get(doc.data, K_A_B) = Undefined
    /\ doc.warnings = <<>>

-----------------------------------------------------------------------------
(* C24: the output of the serializer as strict input                       *)

NonEmptyString(e) == ~e.value.isNull /\ e.value.s # <<>>

\* log2 has one entry for every entry of log that has a valid key, in the
\* same order and under the same name, and with the same value where the
\* value is a non-empty string
Reproduced(log, log2) ==
    /\ Len(log2) = Len(Emitted(log))
    /\ \A k \in 1..Len(log2) :
          /\ log2[k].name = Emitted(log)[k].name
          /\ NonEmptyString(Emitted(log)[k]) => log2[k].value = Emitted(log)[k].value

\* the output of doc.toXMS() was parsed into doc2, doc having a positive
\* version
OutputParsed == pc = "reparsed" /\ doc.version > 0

\* C24: the output of the serializer is always well-formed strict input: for
\* every Document with a positive integer version and any entry log (values
\* containing quotes, backslashes, semicolons, equals signs, or leading,
\* trailing or only whitespace), parsing the string returned by toXMS()
\* never triggers fallback (isFallback false, same version), and every entry
\* with a valid key and a non-empty string value is reproduced with exactly
\* the same name and value, in the same order.
C24_OutputIsStrictInput ==
    OutputParsed =>
        /\ ~doc2.isFallback /\ doc2.version = doc.version
        /\ Reproduced(doc.entries, doc2.entries)

\* C24 for the entry logs that hold no value over its limit when the output
\* is parsed with limits enforced
C24_OutputOfLimitedLog ==
    (/\ OutputParsed
     /\ opts.enforceLimits => \A k \in 1..Len(doc.entries) : ~OverLimit(doc.entries[k]))
        => /\ ~doc2.isFallback /\ doc2.version = doc.version
           /\ Reproduced(doc.entries, doc2.entries)

\* C24, the part about the dispatch: the output is tokenized by the strict
\* tokenizer, without fallback and under the same version
C24_OutputIsStrict ==
    OutputParsed => ~doc2.isFallback /\ doc2.version = doc.version /\ doc2.errors = <<>>

====
